---- MODULE Spec2Model ----
(***************************************************************************)
(* Canvas grading assistant: the server side of the application.          *)
(*                                                                         *)
(* The state is the two credential stores (the user_settings table and    *)
(* the user metadata of the identity provider) and the outcome of the     *)
(* last operation that completed: its response, the calls it made, in    *)
(* order and each with what came back, and the Canvas client it built.    *)
(* Each route handler and each page function is one action; what the      *)
(* outside world answers (session lookup, database, Canvas, language      *)
(* model) is an input of the action.  Spec is the Canvas side, which      *)
(* reads and writes the credential stores; SpecGrade is the grading       *)
(* route, which reads none of them; SpecClient is the Canvas client on    *)
(* its own, applied to base URLs, endpoints and fetch outcomes; SpecAuth   *)
(* is the sign-in routes and SpecHandlers the handlers of an onboarded    *)
(* user.  The pages that run in the browser keep their component state    *)
(* in page: SpecGrading is the submission grading page with its two       *)
(* fetches in flight, SpecOnboarding the onboarding page with its form,   *)
(* its connection test and its save.                                      *)
(*                                                                         *)
(* A string is a sequence of tokens (a URL: of characters), so that       *)
(* startsWith, endsWith and concatenation are computed as the code does.  *)
(* JavaScript's null/undefined is null for a string and nil for an        *)
(* object.                                                                 *)
(***************************************************************************)
EXTENDS Integers, Sequences, FiniteSets, TLC

VARIABLES user_settings, user_metadata, resp, calls, client, page

vars == <<user_settings, user_metadata, resp, calls, client, page>>

----------------------------------------------------------------------------
(* Values *)

null == <<"#null">>
nil == [nil |-> TRUE]

\* A variant that takes every string for truthy, the empty one too.
Truthy_NotNull(s) == s # null

\* JavaScript truthiness of a string-or-null and of an object-or-null
Truthy(s) == s # null /\ s # <<>>
TruthyObj(o) == o # nil

\* how many rows the modelled user_settings table may hold
MaxRows == 2

UrlBare == <<"a", ".", "e", "d", "u">>
UrlHttps == <<"h", "t", "t", "p", "s", ":", "/", "/", "b", ".", "e", "d", "u", "/">>
UrlHttp == <<"h", "t", "t", "p", ":", "/", "/", "c", ".", "e", "d", "u">>
Token1 == <<"tok-1">>
Token2 == <<"tok-2">>

\* what the onboarding form may hold when it is saved: [canvasUrl, canvasToken]
FormValues ==
    { [canvasUrl |-> UrlBare, canvasToken |-> Token1],
      [canvasUrl |-> UrlHttps, canvasToken |-> Token2],
      [canvasUrl |-> <<>>, canvasToken |-> Token1],
      [canvasUrl |-> UrlHttp, canvasToken |-> <<>>] }

\* route parameters (Next.js never passes an empty dynamic segment)
CourseIds == {<<"c7">>}
AssignmentIds == {<<"a3">>}
UserIds == {<<"u5">>}

----------------------------------------------------------------------------
(* lib/canvas-api.ts *)

startsWith(s, prefix) ==
    /\ Len(s) >= Len(prefix)
    /\ SubSeq(s, 1, Len(prefix)) = prefix

endsWith(s, suffix) ==
    /\ Len(s) >= Len(suffix)
    /\ SubSeq(s, Len(s) - Len(suffix) + 1, Len(s)) = suffix

SchemeHttp == <<"h", "t", "t", "p", ":", "/", "/">>
SchemeHttps == <<"h", "t", "t", "p", "s", ":", "/", "/">>

\* A variant that appends the slash whether or not the URL ends with one.
normalizeCanvasUrl_AlwaysSlash(url) ==
    (IF ~startsWith(url, SchemeHttp) /\ ~startsWith(url, SchemeHttps)
     THEN SchemeHttps \o url ELSE url) \o <<"/">>

normalizeCanvasUrl(url) ==
    LET normalizedUrl ==
            IF ~startsWith(url, SchemeHttp) /\ ~startsWith(url, SchemeHttps)
            THEN SchemeHttps \o url
            ELSE url
    IN  IF ~endsWith(normalizedUrl, <<"/">>)
        THEN normalizedUrl \o <<"/">>
        ELSE normalizedUrl

\* new CanvasApiClient(canvasUrl, token)
CanvasApiClient(canvasUrl, token) ==
    [built |-> TRUE, canvasUrl |-> canvasUrl,
     baseUrl |-> normalizeCanvasUrl(canvasUrl), token |-> token]

createCanvasApiClient(canvasUrl, token) == CanvasApiClient(canvasUrl, token)

NoClient == [built |-> FALSE, canvasUrl |-> null, baseUrl |-> null, token |-> null]

\* endpoint.replace(/^\//, "")
StripLeadingSlash(endpoint) ==
    IF Len(endpoint) > 0 /\ Head(endpoint) = "/" THEN Tail(endpoint) ELSE endpoint

ApiPrefix == <<"api", "/", "v1", "/">>

FailedToFetch == <<"Failed to fetch">>

\* What fetch() and the reading of the response body can do.
\*   kind "network": fetch rejects with an Error whose message is message
\*   kind "nonerror": fetch rejects with a value that is not an Error
\*   kind "http": fetch resolves; ok, status, statusText are the response's;
\*       bodyOk says whether the body parses as JSON, errMessage is
\*       errors?.[0]?.message of a parsed error body (null when absent) and
\*       json the parsed body of a success
FetchOutcome(kind, ok, status, statusText, bodyOk, errMessage, json, message) ==
    [kind |-> kind, ok |-> ok, status |-> status, statusText |-> statusText,
     bodyOk |-> bodyOk, errMessage |-> errMessage, json |-> json, message |-> message]

NetworkFailure(message) ==
    FetchOutcome("network", FALSE, <<>>, <<>>, FALSE, null, nil, message)
ThrownValue ==
    FetchOutcome("nonerror", FALSE, <<>>, <<>>, FALSE, null, nil, <<"boom">>)
HttpError(status, statusText, bodyOk, errMessage) ==
    FetchOutcome("http", FALSE, status, statusText, bodyOk, errMessage, nil, <<>>)
HttpOk(json) ==
    FetchOutcome("http", TRUE, <<"200">>, <<"OK">>, TRUE, null, json, <<>>)
HttpOkBadBody ==
    FetchOutcome("http", TRUE, <<"200">>, <<"OK">>, FALSE, null, nil, <<>>)

UnexpectedToken == <<"Unexpected token < in JSON at position 0">>

\* The result of an awaited call: it returned value, or threw an Error with
\* message error (isError FALSE: the thrown value is not an Error).
Returned(value) == [threw |-> FALSE, value |-> value, error |-> <<>>, isError |-> TRUE]
Threw(message) == [threw |-> TRUE, value |-> nil, error |-> message, isError |-> TRUE]
ThrewValue(message) == [threw |-> TRUE, value |-> nil, error |-> message, isError |-> FALSE]

RequestUrl(baseUrl, endpoint) == baseUrl \o ApiPrefix \o StripLeadingSlash(endpoint)

\* one entry of the log of external calls: the call and what came back
Call(svc, method, url, body, result) ==
    [svc |-> svc, method |-> method, url |-> url, body |-> body, result |-> result]

\* CanvasApiClient.request: the promise's outcome for one outcome of fetch
request(c, endpoint, throwOnError, out) ==
    LET url == RequestUrl(c.baseUrl, endpoint)
        \* the catch block of request, for a caught Error with this message
        caught(message) ==
            IF message = FailedToFetch
            THEN IF throwOnError
                 THEN Threw(<<"Network error when connecting to Canvas API at ">> \o url
                            \o <<". Please check your Canvas URL and network connection.">>)
                 ELSE Returned(nil)
            ELSE IF throwOnError THEN Threw(message) ELSE Returned(nil)
    IN  CASE out.kind = "network" -> caught(out.message)
          [] out.kind = "nonerror" ->
                IF throwOnError
                THEN Threw(<<"Failed to connect to Canvas API: ">> \o out.message)
                ELSE Returned(nil)
          [] out.kind = "http" /\ ~out.ok ->
                LET statusLine == <<"Canvas API error: ">> \o out.status \o <<" ">>
                                      \o out.statusText
                    errorMessage ==
                        IF out.bodyOk /\ Truthy(out.errMessage)
                        THEN out.errMessage
                        ELSE statusLine
                IN  \* thrown inside the try: the catch block sees it
                    IF throwOnError THEN caught(errorMessage) ELSE Returned(nil)
          [] out.kind = "http" /\ out.ok ->
                \* return response.json(): not awaited, so its rejection is
                \* not seen by the catch block
                IF out.bodyOk THEN Returned(out.json) ELSE Threw(UnexpectedToken)

----------------------------------------------------------------------------
(* Endpoints of the typed operations *)

RECURSIVE Join(_, _)
\* list.join(sep) for a list of one-token strings
Join(list, sep) ==
    IF Len(list) = 0 THEN <<>>
    ELSE IF Len(list) = 1 THEN <<list[1]>>
    ELSE <<list[1], sep>> \o Join(Tail(list), sep)

\* queryParams.set("include", include.join(",")); a comma is sent as %2C
IncludeQuery(include) ==
    IF Len(include) > 0 THEN <<"include", "=">> \o Join(include, "%2C") ELSE <<>>

PerPage == <<"per_page", "=", "100">>

\* URLSearchParams.toString(): the parameters that were set, joined by &
QueryString(params) ==
    LET set == SelectSeq(params, LAMBDA q : Len(q) > 0)
        RECURSIVE amp(_)
        amp(ps) == IF Len(ps) = 0 THEN <<>>
                   ELSE IF Len(ps) = 1 THEN ps[1]
                   ELSE ps[1] \o <<"&">> \o amp(Tail(ps))
    IN  amp(set)

AssignmentEndpoint(courseId, assignmentId) ==
    <<"courses", "/">> \o courseId \o <<"/", "assignments", "/">> \o assignmentId

SubmissionEndpoint(courseId, assignmentId, userId) ==
    AssignmentEndpoint(courseId, assignmentId) \o <<"/", "submissions", "/">> \o userId

\* the outcome of a client operation: what the promise did and the request sent
Sent(method, c, endpoint, body, throwOnError, out) ==
    LET res == request(c, endpoint, throwOnError, out)
    IN  [res |-> res,
         call |-> Call("canvas", method, RequestUrl(c.baseUrl, endpoint), body,
                       [threw |-> res.threw, value |-> res.value])]

getAssignment(c, courseId, assignmentId, out) ==
    Sent("GET", c, AssignmentEndpoint(courseId, assignmentId), <<>>, TRUE, out)

getCurrentUser(c, out) ==
    Sent("GET", c, <<"users", "/", "self">>, <<>>, TRUE, out)

getCourses(c, include, enrollment_state, state, enrollment_type, out) ==
    Sent("GET", c,
         <<"courses", "?">> \o
             QueryString(<< IncludeQuery(include),
                            IF Truthy(enrollment_state)
                            THEN <<"enrollment_state", "=">> \o enrollment_state ELSE <<>>,
                            IF Len(state) > 0
                            THEN <<"state", "=">> \o Join(state, "%2C") ELSE <<>>,
                            IF Truthy(enrollment_type)
                            THEN <<"enrollment_type", "=">> \o enrollment_type ELSE <<>>,
                            PerPage >>),
         <<>>, TRUE, out)

getCourseAssignments(c, courseId, include, out) ==
    Sent("GET", c,
         <<"courses", "/">> \o courseId \o <<"/", "assignments", "?">> \o
             QueryString(<<IncludeQuery(include), PerPage>>),
         <<>>, TRUE, out)

getAssignmentSubmissions(c, courseId, assignmentId, include, out) ==
    Sent("GET", c,
         AssignmentEndpoint(courseId, assignmentId) \o <<"/", "submissions", "?">> \o
             QueryString(<<IncludeQuery(include), PerPage>>),
         <<>>, TRUE, out)

getSubmission(c, courseId, assignmentId, userId, include, out) ==
    Sent("GET", c,
         SubmissionEndpoint(courseId, assignmentId, userId) \o <<"?">> \o
             QueryString(<<IncludeQuery(include)>>),
         <<>>, TRUE, out)

\* JSON.stringify of a grade-update payload: the fields the payload holds, in
\* their order, and nothing for a field it does not hold
JSONStringify(data) ==
    LET sub == data.submission
        comment ==
            IF sub.text_comment # null
            THEN <<",", "\"comment\"", ":", "{", "\"text_comment\"", ":", "\"">>
                     \o sub.text_comment \o <<"\"", "}">>
            ELSE <<>>
        excuse ==
            IF sub.excuse # null
            THEN <<",", "\"excuse\"", ":">> \o sub.excuse
            ELSE <<>>
    IN  <<"{", "\"submission\"", ":", "{", "\"posted_grade\"", ":", "\"">>
            \o sub.posted_grade \o <<"\"">> \o comment \o excuse \o <<"}", "}">>

\* A variant that sends the grade alone and drops the comment.
updateSubmissionGrade_GradeOnly(c, courseId, assignmentId, userId, data, out) ==
    Sent("PUT", c, SubmissionEndpoint(courseId, assignmentId, userId),
         JSONStringify([submission |-> [data.submission EXCEPT !.text_comment = null]]),
         TRUE, out)

updateSubmissionGrade(c, courseId, assignmentId, userId, data, out) ==
    Sent("PUT", c, SubmissionEndpoint(courseId, assignmentId, userId),
         JSONStringify(data), TRUE, out)

----------------------------------------------------------------------------
(* What the identity provider and the database answer *)

\* supabase.auth.getSession(): a session, no session, or the call throws
SessionOutcomes == {"session", "none", "throw"}
\* a fault of the database query itself: none, an error result, a thrown error
SettingsFaults == {"none", "error", "throw"}
\* supabase.auth.getUser(): the user, no user (an auth error), or the call throws
UserOutcomes == {"user", "nouser", "throw"}

NoRow == nil
DbError == <<"TypeError: fetch failed">>
\* PGRST116, the error of .single() when the rows are not exactly one
NotOneRow == <<"JSON object requested, multiple (or no) rows returned">>
Row(canvas_url, canvas_token) == [canvas_url |-> canvas_url, canvas_token |-> canvas_token]

\* .from("user_settings").select(...).eq("user_id", id).single() on the rows
\* of the session user: the row when there is exactly one, else an error
single(rows, fault) ==
    IF fault = "throw" THEN [threw |-> TRUE, error |-> null, data |-> NoRow]
    ELSE IF fault = "error" THEN [threw |-> FALSE, error |-> DbError, data |-> NoRow]
    ELSE IF Len(rows) # 1 THEN [threw |-> FALSE, error |-> NotOneRow, data |-> NoRow]
    ELSE [threw |-> FALSE, error |-> null, data |-> rows[1]]

EmptyMetadata == [canvas_connected |-> FALSE, canvas_url |-> null, canvas_token |-> null]

\* userData.user?.user_metadata || {}
getUser(metadata, outcome) ==
    IF outcome = "throw" THEN [threw |-> TRUE, user_metadata |-> EmptyMetadata]
    ELSE IF outcome = "nouser" THEN [threw |-> FALSE, user_metadata |-> EmptyMetadata]
    ELSE [threw |-> FALSE, user_metadata |-> metadata]

AuthError == <<"AuthRetryableFetchError">>

----------------------------------------------------------------------------
(* Route handlers: what they share *)

Json(status, body) == [status |-> status, body |-> body]

\* A variant that answers 400, as the inner catch of the test-connection
\* route does.
CatchAll_BadRequest(thrown, fallback) ==
    Json(400, [error |-> IF thrown.isError THEN thrown.error ELSE fallback])

\* the catch-all of a handler, for a thrown value
CatchAll(thrown, fallback) ==
    Json(500, [error |-> IF thrown.isError THEN thrown.error ELSE fallback])

Unexpected == <<"An unexpected error occurred">>

\* await request.json(), as the log of calls has it
requestJson(bodyOut) ==
    Call("request.json", "", <<>>, <<>>, [threw |-> bodyOut.threw, value |-> bodyOut.value])

\* supabase.auth.getSession(), as the log of calls has it
getSession(sessionOut) ==
    Call("auth.getSession", "", <<>>, <<>>,
         [threw |-> sessionOut = "throw", session |-> sessionOut = "session"])

\* A variant of the credential lookup that asks the user metadata first, as
\* the dashboard page does, and reads the table only when the metadata holds
\* no pair.
ResolveCredentials_MetadataFirst(settingsOut, userOut) ==
    LET userMetadata == userOut.user_metadata
        fromMetadata == Truthy(userMetadata.canvas_url) /\ Truthy(userMetadata.canvas_token)
        fromTable == ~settingsOut.threw /\ ~Truthy(settingsOut.error)
                         /\ TruthyObj(settingsOut.data)
    IN  [canvasUrl |-> IF fromMetadata THEN userMetadata.canvas_url
                       ELSE IF fromTable THEN settingsOut.data.canvas_url ELSE null,
         canvasToken |-> IF fromMetadata THEN userMetadata.canvas_token
                         ELSE IF fromTable THEN settingsOut.data.canvas_token ELSE null,
         askedUser |-> TRUE, threw |-> userOut.threw,
         calls |-> <<Call("auth.getUser", "", <<>>, <<>>, userOut),
                     Call("user_settings.single", "SELECT", <<>>, <<>>,
                          [threw |-> settingsOut.threw, data |-> settingsOut.data])>>]

\* A variant that fills each field the table did not give from the user metadata.
ResolveCredentials_Mixed(settingsOut, userOut) ==
    LET fromTable ==
            IF ~settingsOut.threw /\ ~Truthy(settingsOut.error) /\ TruthyObj(settingsOut.data)
            THEN [canvasUrl |-> settingsOut.data.canvas_url,
                  canvasToken |-> settingsOut.data.canvas_token]
            ELSE [canvasUrl |-> null, canvasToken |-> null]
        askUser == ~Truthy(fromTable.canvasUrl) \/ ~Truthy(fromTable.canvasToken)
        userMetadata == userOut.user_metadata
    IN  [canvasUrl |-> IF askUser /\ ~Truthy(fromTable.canvasUrl)
                       THEN userMetadata.canvas_url ELSE fromTable.canvasUrl,
         canvasToken |-> IF askUser /\ ~Truthy(fromTable.canvasToken)
                         THEN userMetadata.canvas_token ELSE fromTable.canvasToken,
         askedUser |-> askUser, threw |-> askUser /\ userOut.threw,
         calls |-> <<Call("user_settings.single", "SELECT", <<>>, <<>>,
                          [threw |-> settingsOut.threw, data |-> settingsOut.data])>>
                   \o IF askUser THEN <<Call("auth.getUser", "", <<>>, <<>>, userOut)>>
                      ELSE <<>>]

\* A variant that asks for the user metadata and then keeps what the table gave.
ResolveCredentials_KeepsTable(settingsOut, userOut) ==
    LET fromTable ==
            IF ~settingsOut.threw /\ ~Truthy(settingsOut.error) /\ TruthyObj(settingsOut.data)
            THEN [canvasUrl |-> settingsOut.data.canvas_url,
                  canvasToken |-> settingsOut.data.canvas_token]
            ELSE [canvasUrl |-> null, canvasToken |-> null]
        askUser == ~Truthy(fromTable.canvasUrl) \/ ~Truthy(fromTable.canvasToken)
    IN  [canvasUrl |-> fromTable.canvasUrl, canvasToken |-> fromTable.canvasToken,
         askedUser |-> askUser, threw |-> askUser /\ userOut.threw,
         calls |-> <<Call("user_settings.single", "SELECT", <<>>, <<>>,
                          [threw |-> settingsOut.threw, data |-> settingsOut.data])>>
                   \o IF askUser THEN <<Call("auth.getUser", "", <<>>, <<>>, userOut)>>
                      ELSE <<>>]

\* "Get the user's Canvas settings": the table first, then the user metadata
ResolveCredentials(settingsOut, userOut) ==
    LET fromTable ==
            IF ~settingsOut.threw /\ ~Truthy(settingsOut.error) /\ TruthyObj(settingsOut.data)
            THEN [canvasUrl |-> settingsOut.data.canvas_url,
                  canvasToken |-> settingsOut.data.canvas_token]
            ELSE [canvasUrl |-> null, canvasToken |-> null]
        askUser == ~Truthy(fromTable.canvasUrl) \/ ~Truthy(fromTable.canvasToken)
        userMetadata == userOut.user_metadata
        pair ==
            IF askUser /\ Truthy(userMetadata.canvas_url) /\ Truthy(userMetadata.canvas_token)
            THEN [canvasUrl |-> userMetadata.canvas_url,
                  canvasToken |-> userMetadata.canvas_token]
            ELSE fromTable
    IN  [canvasUrl |-> pair.canvasUrl, canvasToken |-> pair.canvasToken,
         askedUser |-> askUser, threw |-> askUser /\ userOut.threw,
         calls |-> <<Call("user_settings.single", "SELECT", <<>>, <<>>,
                          [threw |-> settingsOut.threw, data |-> settingsOut.data])>>
                   \o IF askUser THEN <<Call("auth.getUser", "", <<>>, <<>>, userOut)>>
                      ELSE <<>>]

CredentialsNotFound == <<"Canvas credentials not found. Please complete onboarding.">>

\* A variant that looks the session up a second time before it gives up.
NoSession_Retried(sessionCall) ==
    [stop |-> TRUE, resp |-> Json(401, [error |-> <<"Unauthorized">>]),
     calls |-> sessionCall \o sessionCall, canvasUrl |-> null, canvasToken |-> null]

\* if (!session) return 401
NoSession(sessionCall) ==
    [stop |-> TRUE, resp |-> Json(401, [error |-> <<"Unauthorized">>]),
     calls |-> sessionCall, canvasUrl |-> null, canvasToken |-> null]

\* The session check and the credential lookup of a Canvas-proxy handler:
\* stop says that the handler has answered, with resp
Authorize(sessionOut, settingsOut, userOut) ==
    LET sessionCall == <<getSession(sessionOut)>>
        cred == ResolveCredentials(settingsOut, userOut)
        stopped(r, cs) ==
            [stop |-> TRUE, resp |-> r, calls |-> cs, canvasUrl |-> null, canvasToken |-> null]
    IN  IF sessionOut = "throw" THEN stopped(CatchAll(Threw(AuthError), Unexpected), sessionCall)
        ELSE IF sessionOut = "none" THEN NoSession(sessionCall)
        ELSE IF cred.threw
             THEN stopped(CatchAll(Threw(AuthError), Unexpected), sessionCall \o cred.calls)
        ELSE IF ~Truthy(cred.canvasUrl) \/ ~Truthy(cred.canvasToken)
             THEN stopped(Json(400, [error |-> CredentialsNotFound]), sessionCall \o cred.calls)
        ELSE [stop |-> FALSE, resp |-> Json(0, [error |-> <<>>]),
              calls |-> sessionCall \o cred.calls,
              canvasUrl |-> cred.canvasUrl, canvasToken |-> cred.canvasToken]

\* what a handler run leaves: the response, the external calls, the client
Outcome(route, r, cs, c) ==
    [resp |-> [route |-> route, status |-> r.status, body |-> r.body],
     calls |-> cs, client |-> c]

\* url.searchParams.get("include")?.split(",") || dflt
IncludeOr(includeParam, dflt) == IF includeParam = null THEN dflt ELSE includeParam

----------------------------------------------------------------------------
(* What Canvas answers *)

CanvasUser == [id |-> <<"u9">>, name |-> <<"Ada Lovelace">>,
               sortable_name |-> <<"Lovelace, Ada">>, avatar_url |-> <<"ada.png">>]

\* a submission as Canvas returns it; user is nil when Canvas sent no user
CanvasSubmission(user) ==
    [id |-> <<"s41">>, user_id |-> <<"u9">>, assignment_id |-> <<"a3">>,
     grade |-> <<"B">>, user |-> user]

CanvasAssignment == [id |-> <<"a3">>, name |-> <<"Essay">>, points_possible |-> <<"50">>]
CanvasList == [items |-> <<"i1", "i2">>]

NotFoundMessage == <<"The specified resource does not exist.">>

Failures ==
    { HttpError(<<"404">>, <<"Not Found">>, TRUE, NotFoundMessage),
      HttpError(<<"502">>, <<"Bad Gateway">>, FALSE, null),
      NetworkFailure(FailedToFetch),
      HttpOkBadBody }

\* a refusal of Canvas and a failure of the network
RefusedOrUnreachable ==
    { HttpError(<<"404">>, <<"Not Found">>, TRUE, NotFoundMessage),
      NetworkFailure(FailedToFetch) }

SubmissionOutcomes ==
    { HttpOk(CanvasSubmission(CanvasUser)), HttpOk(CanvasSubmission(nil)), HttpOk(nil) }
        \cup RefusedOrUnreachable
AssignmentOutcomes == { HttpOk(CanvasAssignment), HttpOk(nil) } \cup Failures
FallbackOutcomes == { HttpOk(CanvasAssignment), HttpOk(nil) } \cup RefusedOrUnreachable
ListOutcomes == { HttpOk(CanvasList) } \cup RefusedOrUnreachable
UpdateOutcomes ==
    { HttpOk(CanvasSubmission(CanvasUser)), HttpOk(nil) } \cup RefusedOrUnreachable

----------------------------------------------------------------------------
(* app/api/canvas/.../route.ts *)

\* GET courses
GET_courses(includeParam, sessionOut, settingsOut, userOut, out) ==
    LET a == Authorize(sessionOut, settingsOut, userOut)
        canvasApi == createCanvasApiClient(a.canvasUrl, a.canvasToken)
        r == getCourses(canvasApi, IncludeOr(includeParam, <<>>), <<"active">>,
                        <<"available">>, <<"teacher">>, out)
    IN  IF a.stop THEN Outcome("GET courses", a.resp, a.calls, NoClient)
        ELSE Outcome("GET courses",
                     IF r.res.threw THEN CatchAll(r.res, Unexpected)
                     ELSE Json(200, [courses |-> r.res.value]),
                     a.calls \o <<r.call>>, canvasApi)

\* GET courses/:id/assignments
GET_assignments(courseId, sessionOut, settingsOut, userOut, out) ==
    LET a == Authorize(sessionOut, settingsOut, userOut)
        canvasApi == createCanvasApiClient(a.canvasUrl, a.canvasToken)
        r == getCourseAssignments(canvasApi, courseId,
                                  <<"submission_count", "overrides">>, out)
    IN  IF ~Truthy(courseId)
        THEN Outcome("GET assignments",
                     Json(400, [error |-> <<"Course ID is required">>]), <<>>, NoClient)
        ELSE IF a.stop THEN Outcome("GET assignments", a.resp, a.calls, NoClient)
        ELSE Outcome("GET assignments",
                     IF r.res.threw THEN CatchAll(r.res, Unexpected)
                     ELSE Json(200, [assignments |-> r.res.value]),
                     a.calls \o <<r.call>>, canvasApi)

\* A variant without the check for an absent assignment.
AssignmentResponse_NoAbsentCheck(res) ==
    IF res.threw
    THEN Json(404, [error |-> IF res.isError THEN res.error
                              ELSE <<"Assignment not found or inaccessible">>])
    ELSE Json(200, [assignment |-> res.value])

\* the inner try of GET assignment: the answer to what getAssignment did
AssignmentResponse(res) ==
    IF res.threw
    THEN Json(404, [error |-> IF res.isError THEN res.error
                              ELSE <<"Assignment not found or inaccessible">>])
    ELSE IF ~TruthyObj(res.value)
         THEN Json(404, [error |-> <<"Assignment not found">>])
         ELSE Json(200, [assignment |-> res.value])

\* GET courses/:courseId/assignments/:assignmentId
GET_assignment(courseId, assignmentId, sessionOut, settingsOut, userOut, out) ==
    LET a == Authorize(sessionOut, settingsOut, userOut)
        canvasApi == createCanvasApiClient(a.canvasUrl, a.canvasToken)
        r == getAssignment(canvasApi, courseId, assignmentId, out)
    IN  IF ~Truthy(courseId) \/ ~Truthy(assignmentId)
        THEN Outcome("GET assignment",
                     Json(400, [error |-> <<"Course ID and Assignment ID are required">>]),
                     <<>>, NoClient)
        ELSE IF a.stop THEN Outcome("GET assignment", a.resp, a.calls, NoClient)
        ELSE Outcome("GET assignment", AssignmentResponse(r.res),
                     a.calls \o <<r.call>>, canvasApi)

\* GET courses/:courseId/assignments/:assignmentId/submissions
GET_submissions(courseId, assignmentId, includeParam, sessionOut, settingsOut, userOut, out) ==
    LET a == Authorize(sessionOut, settingsOut, userOut)
        canvasApi == createCanvasApiClient(a.canvasUrl, a.canvasToken)
        r == getAssignmentSubmissions(canvasApi, courseId, assignmentId,
                                      IncludeOr(includeParam, <<"user">>), out)
    IN  IF ~Truthy(courseId) \/ ~Truthy(assignmentId)
        THEN Outcome("GET submissions",
                     Json(400, [error |-> <<"Course ID and Assignment ID are required">>]),
                     <<>>, NoClient)
        ELSE IF a.stop THEN Outcome("GET submissions", a.resp, a.calls, NoClient)
        ELSE Outcome("GET submissions",
                     IF r.res.threw THEN CatchAll(r.res, Unexpected)
                     ELSE Json(200, [submissions |-> r.res.value]),
                     a.calls \o <<r.call>>, canvasApi)

IdsRequired == <<"Course ID, Assignment ID, and User ID are required">>

\* the minimal user object of a submission that came without one
MinimalUser(userId) ==
    [id |-> userId, name |-> <<"Student ">> \o userId,
     sortable_name |-> <<"Student ">> \o userId, avatar_url |-> <<>>]

\* A variant that swaps the two ids of the placeholder.
UnknownSubmission_SwappedIds(assignmentId, userId) ==
    [id |-> <<"unknown">>, user_id |-> assignmentId, assignment_id |-> userId,
     user |-> MinimalUser(userId)]

\* the submission of the degraded response
UnknownSubmission(assignmentId, userId) ==
    [id |-> <<"unknown">>, user_id |-> userId, assignment_id |-> assignmentId,
     user |-> MinimalUser(userId)]

\* A variant that returns the submission as Canvas sent it.
WithUser_AsSent(submission, userId) == submission

\* if (!submission.user) submission.user = the minimal user
WithUser(submission, userId) ==
    IF ~TruthyObj(submission.user)
    THEN [submission EXCEPT !.user = MinimalUser(userId)]
    ELSE submission

\* A variant that answers 200 with no assignment when the assignment fetch
\* throws as well.
Degraded_AlwaysOk(g, assignmentId, userId) ==
    Json(200, [error |-> <<"Failed to fetch submission details">>,
               assignment |-> g.res.value,
               submission |-> UnknownSubmission(assignmentId, userId)])

\* catch (submissionError): the assignment alone, or nothing
Degraded(g, assignmentId, userId) ==
    IF ~g.res.threw
    THEN Json(200, [error |-> <<"Failed to fetch submission details">>,
                    assignment |-> g.res.value,
                    submission |-> UnknownSubmission(assignmentId, userId)])
    ELSE Json(404, [error |-> <<"Failed to fetch submission and assignment details">>])

\* A variant that asks for the assignment whatever the submission fetch did.
SubmissionCalls_Both(s, g) == <<s.call, g.call>>

\* the requests of GET submission: the assignment is asked for in the catch
\* of the submission fetch only
SubmissionCalls(s, g) == IF s.res.threw THEN <<s.call, g.call>> ELSE <<s.call>>

\* GET courses/:courseId/assignments/:assignmentId/submissions/:userId
GET_submission(courseId, assignmentId, userId, includeParam, sessionOut, settingsOut, userOut, subOut, asgOut) ==
    LET a == Authorize(sessionOut, settingsOut, userOut)
        canvasApi == createCanvasApiClient(a.canvasUrl, a.canvasToken)
        s == getSubmission(canvasApi, courseId, assignmentId, userId,
                           IncludeOr(includeParam, <<"user", "submission_comments">>), subOut)
        g == getAssignment(canvasApi, courseId, assignmentId, asgOut)
        submission == s.res.value
    IN  IF ~Truthy(courseId) \/ ~Truthy(assignmentId) \/ ~Truthy(userId)
        THEN Outcome("GET submission", Json(400, [error |-> IdsRequired]), <<>>, NoClient)
        ELSE IF a.stop THEN Outcome("GET submission", a.resp, a.calls, NoClient)
        ELSE IF ~s.res.threw
        THEN Outcome("GET submission",
                     IF ~TruthyObj(submission)
                     THEN Json(404, [error |-> <<"Submission not found">>])
                     ELSE Json(200, [submission |-> WithUser(submission, userId)]),
                     a.calls \o SubmissionCalls(s, g), canvasApi)
        ELSE Outcome("GET submission", Degraded(g, assignmentId, userId),
                     a.calls \o SubmissionCalls(s, g), canvasApi)

\* request.json() of a grade update: the parsed payload, or the body is not JSON
Payload(posted_grade, text_comment, excuse) ==
    [submission |-> [posted_grade |-> posted_grade, text_comment |-> text_comment,
                     excuse |-> excuse]]
Payloads ==
    { Payload(<<"95">>, <<"Great work">>, null),
      Payload(<<"B+">>, null, <<"true">>) }
BodyOutcomes == { Returned(d) : d \in Payloads } \cup { Threw(UnexpectedToken) }

\* PUT courses/:courseId/assignments/:assignmentId/submissions/:userId
PUT_submission(courseId, assignmentId, userId, sessionOut, settingsOut, userOut, bodyOut, out) ==
    LET a == Authorize(sessionOut, settingsOut, userOut)
        canvasApi == createCanvasApiClient(a.canvasUrl, a.canvasToken)
        body == bodyOut.value
        u == updateSubmissionGrade(canvasApi, courseId, assignmentId, userId, body, out)
    IN  IF ~Truthy(courseId) \/ ~Truthy(assignmentId) \/ ~Truthy(userId)
        THEN Outcome("PUT submission", Json(400, [error |-> IdsRequired]), <<>>, NoClient)
        ELSE IF a.stop THEN Outcome("PUT submission", a.resp, a.calls, NoClient)
        ELSE IF bodyOut.threw
        THEN Outcome("PUT submission", CatchAll(bodyOut, Unexpected),
                     a.calls \o <<requestJson(bodyOut)>>, NoClient)
        ELSE Outcome("PUT submission",
                     IF u.res.threw
                     THEN Json(500, [error |-> IF u.res.isError THEN u.res.error
                                               ELSE <<"Failed to update submission grade">>])
                     ELSE Json(200, [submission |-> u.res.value]),
                     a.calls \o <<requestJson(bodyOut), u.call>>, canvasApi)

----------------------------------------------------------------------------
(* JSON.parse of the language model's text *)

\* A text of the model is a sequence of lexemes <<class, text>>: "p" a
\* punctuation mark, "str" a string literal, "num" a number, "lit" one of
\* null, true and false, "other" anything JSON has no place for.
P(mark) == <<"p", mark>>
Str(text) == <<"str", text>>
Num(text) == <<"num", text>>

Lexeme(text, i) == IF i <= Len(text) THEN text[i] ELSE <<"eof", "">>

\* a parsed value: its class, its lexeme (scalars), its keys (objects) and
\* its items (arrays: the elements, objects: the values of the keys)
JValue(class, lex, keys, items) ==
    [class |-> class, lex |-> lex, keys |-> keys, items |-> items]

Failed == [ok |-> FALSE, next |-> 0, val |-> JValue("none", "", <<>>, <<>>)]
Parsed(val, next) == [ok |-> TRUE, next |-> next, val |-> val]

RECURSIVE ParseValue(_, _)
RECURSIVE ParseElements(_, _, _)
RECURSIVE ParseMembers(_, _, _, _)

\* the elements of an array after "[", items being those read so far
ParseElements(text, i, items) ==
    LET v == ParseValue(text, i)
    IN  IF ~v.ok THEN Failed
        ELSE IF Lexeme(text, v.next) = P(",")
             THEN ParseElements(text, v.next + 1, Append(items, v.val))
        ELSE IF Lexeme(text, v.next) = P("]")
             THEN Parsed(JValue("array", "", <<>>, Append(items, v.val)), v.next + 1)
        ELSE Failed

\* the members of an object after "{"
ParseMembers(text, i, keys, items) ==
    IF Lexeme(text, i)[1] # "str" \/ Lexeme(text, i + 1) # P(":") THEN Failed
    ELSE LET v == ParseValue(text, i + 2)
         IN  IF ~v.ok THEN Failed
             ELSE IF Lexeme(text, v.next) = P(",")
                  THEN ParseMembers(text, v.next + 1, Append(keys, Lexeme(text, i)[2]),
                                    Append(items, v.val))
             ELSE IF Lexeme(text, v.next) = P("}")
                  THEN Parsed(JValue("object", "", Append(keys, Lexeme(text, i)[2]),
                                     Append(items, v.val)), v.next + 1)
             ELSE Failed

ParseValue(text, i) ==
    LET t == Lexeme(text, i)
    IN  IF t[1] \in {"str", "num", "lit"}
        THEN Parsed(JValue(t[1], t[2], <<>>, <<>>), i + 1)
        ELSE IF t = P("[")
        THEN IF Lexeme(text, i + 1) = P("]")
             THEN Parsed(JValue("array", "", <<>>, <<>>), i + 2)
             ELSE ParseElements(text, i + 1, <<>>)
        ELSE IF t = P("{")
        THEN IF Lexeme(text, i + 1) = P("}")
             THEN Parsed(JValue("object", "", <<>>, <<>>), i + 2)
             ELSE ParseMembers(text, i + 1, <<>>, <<>>)
        ELSE Failed

\* JSON.parse(text): the value, or a SyntaxError
JSONParse(text) ==
    LET v == ParseValue(text, 1)
    IN  IF v.ok /\ v.next = Len(text) + 1
        THEN Returned(v.val)
        ELSE Threw(<<"SyntaxError: Unexpected token">>)

----------------------------------------------------------------------------
(* app/api/ai/grade-submission/route.ts *)

\* the body of a grading request; a field the body does not hold is null
AiBody(assignmentDescription, submissionContent, pointsPossible, rubric) ==
    [assignmentDescription |-> assignmentDescription,
     submissionContent |-> submissionContent,
     pointsPossible |-> pointsPossible, rubric |-> rubric]

Description == <<"Write an essay.">>
OtherDescription == <<"Solve the problem set.">>
Content == <<"My essay.">>
LongContent == <<"My essay.", " It has two parts.">>
Rubric == <<"Clarity: 10">>

\* bodies that hold both required fields, and bodies that miss one
AiBodies ==
    { AiBody(d, c, p, r) :
        d \in {Description, OtherDescription}, c \in {Content, LongContent},
        p \in {<<"50">>, <<"0">>, null}, r \in {Rubric, null} }
    \cup
    { AiBody(null, Content, <<"50">>, null),
      AiBody(<<>>, Content, null, null),
      AiBody(Description, null, <<"50">>, null),
      AiBody(Description, <<>>, null, null),
      AiBody(null, null, null, null) }

\* request.json(): an object, the JSON value null, or the body is not JSON
AiBodyOutcomes == { Returned(b) : b \in AiBodies } \cup { Returned(nil), Threw(UnexpectedToken) }

\* truthiness of a JSON number (or null): 0 is falsy
TruthyNum(n) == n # null /\ n # <<"0">>

\* the prompt; the fixed parts of the template are shortened
Prompt(assignmentDescription, submissionContent, pointsPossible, rubric) ==
    <<"You are an expert educational assistant [...] ASSIGNMENT DESCRIPTION: ">>
        \o assignmentDescription
        \o <<" POINTS POSSIBLE: ">>
        \o (IF TruthyNum(pointsPossible) THEN pointsPossible ELSE <<"Not specified">>)
        \o (IF Truthy(rubric) THEN <<" RUBRIC: ">> \o rubric ELSE <<>>)
        \o <<" STUDENT SUBMISSION: ">>
        \o submissionContent
        \o <<" [...] 1. A suggested grade (out of ">>
        \o (IF TruthyNum(pointsPossible) THEN pointsPossible ELSE <<"100">>)
        \o <<" points) [...] Format your response as a JSON object [...]">>

GradingText ==
    << P("{"), Str("grade"), P(":"), Num("42"), P(","),
       Str("feedback"), P(":"), Str("Clear."), P(","),
       Str("strengths"), P(":"), P("["), Str("structure"), P("]"), P(","),
       Str("areasForImprovement"), P(":"), P("["), Str("sources"), P(","), Str("length"), P("]"), P(","),
       Str("summary"), P(":"), Str("Good."), P("}") >>
PartialText == << P("{"), Str("grade"), P(":"), Num("42"), P("}") >>
NullText == << <<"lit", "null">> >>
FencedText == << <<"other", "[code fence]json">> >> \o PartialText \o << <<"other", "[code fence]">> >>
TruncatedText == << P("{"), Str("grade"), P(":"), Num("42"), P(","), Str("feedback"), P(":") >>
EmptyText == <<>>

LlmText(text) == [threw |-> FALSE, text |-> text, error |-> <<>>, isError |-> TRUE]
LlmFailure == [threw |-> TRUE, text |-> <<>>, error |-> <<"Rate limit exceeded">>, isError |-> TRUE]

LlmOutcomes ==
    { LlmText(t) : t \in { GradingText, PartialText, NullText, FencedText,
                           TruncatedText, EmptyText } } \cup { LlmFailure }

DestructureNull ==
    <<"Cannot destructure property 'assignmentDescription' of 'body' as it is null.">>

\* A variant that reports the text without its first and last lexeme (the
\* text "cleaned" of a code fence).
ParseFailure_Stripped(text) ==
    Json(500, [error |-> <<"Failed to parse AI response">>,
               rawResponse |-> IF Len(text) >= 2 THEN SubSeq(text, 2, Len(text) - 1)
                               ELSE text])

\* catch of JSON.parse(text)
ParseFailure(text) ==
    Json(500, [error |-> <<"Failed to parse AI response">>, rawResponse |-> text])

\* A variant that calls the model a second time when the first call throws.
generateText_Retried(prompt, llmOut) ==
    IF llmOut.threw
    THEN <<Call("generateText", "gpt-4o", <<>>, prompt, llmOut),
           Call("generateText", "gpt-4o", <<>>, prompt, llmOut)>>
    ELSE <<Call("generateText", "gpt-4o", <<>>, prompt, llmOut)>>

\* await generateText({model: openai("gpt-4o"), prompt, ...}): one call
generateText(prompt, llmOut) == <<Call("generateText", "gpt-4o", <<>>, prompt, llmOut)>>

\* POST ai/grade-submission
POST_grade(bodyOut, llmOut) ==
    LET body == bodyOut.value
        bodyRead == <<requestJson(bodyOut)>>
        prompt == Prompt(body.assignmentDescription, body.submissionContent,
                         body.pointsPossible, body.rubric)
        llmCall == generateText(prompt, llmOut)
        grading == JSONParse(llmOut.text)
    IN  IF bodyOut.threw
        THEN Outcome("POST grade-submission", CatchAll(bodyOut, Unexpected),
                     bodyRead, NoClient)
        ELSE IF body = nil
        THEN Outcome("POST grade-submission", CatchAll(Threw(DestructureNull), Unexpected),
                     bodyRead, NoClient)
        ELSE IF ~Truthy(body.assignmentDescription) \/ ~Truthy(body.submissionContent)
        THEN Outcome("POST grade-submission",
                     Json(400, [error |->
                         <<"Assignment description and submission content are required">>]),
                     bodyRead, NoClient)
        ELSE IF llmOut.threw
        THEN Outcome("POST grade-submission", CatchAll(llmOut, Unexpected),
                     bodyRead \o llmCall, NoClient)
        ELSE IF grading.threw
        THEN Outcome("POST grade-submission", ParseFailure(llmOut.text),
                     bodyRead \o llmCall, NoClient)
        ELSE Outcome("POST grade-submission", Json(200, grading.value),
                     bodyRead \o llmCall, NoClient)

----------------------------------------------------------------------------
(* app/dashboard/page.tsx *)

\* .from("user_settings").select(...).eq("user_id", id).limit(1): at most one
\* of the user's rows; no order is asked for, so pick says which
limit1(rows, fault, pick) ==
    IF fault = "throw" THEN [threw |-> TRUE, error |-> null, data |-> <<>>]
    ELSE IF fault = "error" THEN [threw |-> FALSE, error |-> DbError, data |-> <<>>]
    ELSE [threw |-> FALSE, error |-> null,
          data |-> IF Len(rows) = 0 THEN <<>> ELSE <<rows[pick]>>]

\* what the page shows: a redirect, or the dashboard with canvasUrl
Page(status, redirect, canvasUrl) ==
    Json(status, [redirect |-> redirect, canvasUrl |-> canvasUrl])

DashboardPage(sessionOut, userOut, settingsOut) ==
    LET sessionCall == <<getSession(sessionOut)>>
        userCall == <<Call("auth.getUser", "", <<>>, <<>>, userOut)>>
        tableCall == <<Call("user_settings.limit", "SELECT", <<>>, <<>>,
                            [threw |-> settingsOut.threw, rows |-> settingsOut.data])>>
        userMetadata == userOut.user_metadata
        fromMetadata ==
            /\ userMetadata.canvas_connected
            /\ Truthy(userMetadata.canvas_url)
            /\ Truthy(userMetadata.canvas_token)
        userSettings == settingsOut.data
        fromTable ==
            /\ ~settingsOut.threw
            /\ ~Truthy(settingsOut.error)
            /\ Len(userSettings) > 0
            /\ Truthy(userSettings[1].canvas_url)
            /\ Truthy(userSettings[1].canvas_token)
    IN  IF sessionOut = "throw"
        THEN Outcome("DashboardPage", Page(500, <<>>, null), sessionCall, NoClient)
        ELSE IF sessionOut = "none"
        THEN Outcome("DashboardPage", Page(307, <<"/login">>, null), sessionCall, NoClient)
        ELSE IF userOut.threw
        THEN Outcome("DashboardPage", Page(500, <<>>, null), sessionCall \o userCall, NoClient)
        ELSE IF fromMetadata
        THEN Outcome("DashboardPage", Page(200, <<>>, userMetadata.canvas_url),
                     sessionCall \o userCall, NoClient)
        ELSE IF fromTable
        THEN Outcome("DashboardPage", Page(200, <<>>, userSettings[1].canvas_url),
                     sessionCall \o userCall \o tableCall, NoClient)
        ELSE Outcome("DashboardPage", Page(307, <<"/onboarding">>, null),
                     sessionCall \o userCall \o tableCall, NoClient)

----------------------------------------------------------------------------
(* app/onboarding/page.tsx: Save & Continue *)

\* saveSettingsToDatabase: insert a row; when the insert fails, update the rows
\* of the user.  The table has no unique constraint on user_id, so an insert
\* fails only when the database refuses it.
saveSettingsToDatabase(rows, form, insertError, updateError) ==
    LET row == Row(form.canvasUrl, form.canvasToken)
    IN  IF ~insertError THEN [threw |-> FALSE, rows |-> Append(rows, row)]
        ELSE IF ~updateError
             THEN [threw |-> FALSE, rows |-> [i \in DOMAIN rows |-> row]]
             ELSE [threw |-> TRUE, rows |-> rows]

\* saveSettingsToUserMetadata: supabase.auth.updateUser({data: ...})
saveSettingsToUserMetadata(metadata, form, metaError) ==
    IF metaError THEN [threw |-> TRUE, metadata |-> metadata]
    ELSE [threw |-> FALSE,
          metadata |-> [canvas_connected |-> TRUE, canvas_url |-> form.canvasUrl,
                        canvas_token |-> form.canvasToken]]

\* saveCanvasSettings: the table, then the metadata; the first failure ends it
saveCanvasSettings(rows, metadata, form, sessionOut, insertError, updateError, metaError) ==
    LET db == saveSettingsToDatabase(rows, form, insertError, updateError)
        md == saveSettingsToUserMetadata(metadata, form, metaError)
        failed(message, rs) ==
            [rows |-> rs, metadata |-> metadata,
             result |-> Json(0, [error |-> message, success |-> null])]
    IN  IF sessionOut = "throw" THEN failed(AuthError, rows)
        ELSE IF sessionOut = "none"
        THEN failed(<<"You must be logged in to save settings">>, rows)
        ELSE IF db.threw THEN failed(<<"Failed to save settings: ">> \o DbError, rows)
        ELSE IF md.threw THEN failed(AuthError, db.rows)
        ELSE [rows |-> db.rows, metadata |-> md.metadata,
              result |-> Json(0, [error |-> null,
                                  success |-> <<"Canvas settings saved successfully">>])]

----------------------------------------------------------------------------
(* The system *)

NoResponse == [route |-> "none", status |-> 0, body |-> [error |-> <<>>]]

\* no page is open in the browser
NoPage == [name |-> "none"]

Init ==
    /\ user_settings = <<>>
    /\ user_metadata = EmptyMetadata
    /\ resp = NoResponse
    /\ calls = <<>>
    /\ client = NoClient
    /\ page = NoPage

\* the last operation leaves outcome o; the stores stay as they are
Leaves(o) ==
    /\ resp' = o.resp
    /\ calls' = o.calls
    /\ client' = o.client
    /\ UNCHANGED <<user_settings, user_metadata, page>>

\* an input that is read only when cond holds
Input(cond, S, unread) == IF cond THEN S ELSE {unread}

SettingsOutcomes ==
    { single(user_settings, f) :
        f \in IF Len(user_settings) = 1 THEN SettingsFaults ELSE {"none", "throw"} }
UserResults == { getUser(user_metadata, o) : o \in UserOutcomes }
Unread == [threw |-> FALSE, error |-> DbError, data |-> NoRow]
UnreadUser == [threw |-> FALSE, user_metadata |-> EmptyMetadata]
UnreadFetch == HttpOk(nil)
\* the include parameter of a request for the courses: absent, or a list
IncludeParams == {null, <<"term">>}

\* the inputs of the session check and the credential lookup, each read only
\* when the handler gets to it
AuthInputs ==
    { <<se, st, us>> \in SessionOutcomes \X (SettingsOutcomes \cup {Unread})
                         \X (UserResults \cup {UnreadUser}) :
        /\ st \in Input(se = "session", SettingsOutcomes, Unread)
        /\ us \in Input(se = "session" /\ ResolveCredentials(st, UnreadUser).askedUser,
                        UserResults, UnreadUser) }

Reaches(in) == ~Authorize(in[1], in[2], in[3]).stop

GetCourses ==
    \E in \in AuthInputs :
      \E out \in Input(Reaches(in), ListOutcomes, UnreadFetch),
         includeParam \in Input(Reaches(in), IncludeParams, null) :
        Leaves(GET_courses(includeParam, in[1], in[2], in[3], out))

GetAssignments ==
    \E in \in AuthInputs, courseId \in CourseIds :
      \E out \in Input(Reaches(in), ListOutcomes, UnreadFetch) :
        Leaves(GET_assignments(courseId, in[1], in[2], in[3], out))

GetAssignment ==
    \E in \in AuthInputs, courseId \in CourseIds, assignmentId \in AssignmentIds :
      \E out \in Input(Reaches(in), AssignmentOutcomes, UnreadFetch) :
        Leaves(GET_assignment(courseId, assignmentId, in[1], in[2], in[3], out))

GetSubmissions ==
    \E in \in AuthInputs, courseId \in CourseIds, assignmentId \in AssignmentIds :
      \E out \in Input(Reaches(in), ListOutcomes, UnreadFetch) :
        Leaves(GET_submissions(courseId, assignmentId, null, in[1], in[2], in[3], out))

GetSubmission ==
    \E in \in AuthInputs, courseId \in CourseIds, assignmentId \in AssignmentIds,
       userId \in UserIds :
      \E subOut \in Input(Reaches(in), SubmissionOutcomes, UnreadFetch) :
        \E asgOut \in Input(Reaches(in) /\ request(NoClient, <<>>, TRUE, subOut).threw,
                            FallbackOutcomes, UnreadFetch) :
          Leaves(GET_submission(courseId, assignmentId, userId, null,
                                in[1], in[2], in[3], subOut, asgOut))

PutSubmission ==
    \E in \in AuthInputs, courseId \in CourseIds, assignmentId \in AssignmentIds,
       userId \in UserIds :
      \E bodyOut \in Input(Reaches(in), BodyOutcomes, Threw(UnexpectedToken)) :
        \E out \in Input(Reaches(in) /\ ~bodyOut.threw, UpdateOutcomes, UnreadFetch) :
          Leaves(PUT_submission(courseId, assignmentId, userId,
                                in[1], in[2], in[3], bodyOut, out))

PostGrade ==
    \E bodyOut \in AiBodyOutcomes :
      \E llmOut \in Input(~bodyOut.threw /\ bodyOut.value # nil
                              /\ Truthy(bodyOut.value.assignmentDescription)
                              /\ Truthy(bodyOut.value.submissionContent),
                          LlmOutcomes, LlmFailure) :
        LET o == POST_grade(bodyOut, llmOut)
        IN  /\ Leaves(o)
            /\ o.resp.route = "POST grade-submission"

Dashboard ==
    \E sessionOut \in SessionOutcomes :
      \E userOut \in Input(sessionOut = "session", UserResults, UnreadUser) :
        \E fault \in Input(sessionOut = "session" /\ ~userOut.threw, SettingsFaults, "none") :
          \E pick \in Input(fault = "none", 1..MaxRows, 1) :
            /\ pick <= IF Len(user_settings) = 0 THEN 1 ELSE Len(user_settings)
            /\ Leaves(DashboardPage(sessionOut, userOut, limit1(user_settings, fault, pick)))

SaveCanvasSettings ==
    \E form \in FormValues, sessionOut \in SessionOutcomes :
      \E insertError \in Input(sessionOut = "session", BOOLEAN, FALSE) :
        \E updateError \in Input(insertError, BOOLEAN, FALSE) :
          \E metaError \in Input(sessionOut = "session" /\ ~updateError, BOOLEAN, FALSE) :
            LET saved == saveCanvasSettings(user_settings, user_metadata, form, sessionOut,
                                            insertError, updateError, metaError)
            IN  /\ Len(saved.rows) <= MaxRows
                /\ user_settings' = saved.rows
                /\ user_metadata' = saved.metadata
                /\ resp' = [route |-> "saveCanvasSettings", status |-> saved.result.status,
                            body |-> saved.result.body]
                /\ calls' = <<>>
                /\ client' = NoClient
                /\ UNCHANGED page

\* The Canvas side: the credential stores and everything that reads or
\* writes them
Next ==
    \/ GetCourses
    \/ GetAssignments
    \/ GetAssignment
    \/ GetSubmissions
    \/ GetSubmission
    \/ PutSubmission
    \/ Dashboard
    \/ SaveCanvasSettings

Spec == Init /\ [][Next]_vars

\* The grading route: it reads no session and no credential store
SpecGrade == Init /\ [][PostGrade]_vars

\* The stores after the first save of the onboarding page went through
InitOnboarded ==
    /\ user_settings = <<Row(UrlBare, Token1)>>
    /\ user_metadata = [canvas_connected |-> TRUE, canvas_url |-> UrlBare,
                        canvas_token |-> Token1]
    /\ resp = [route |-> "saveCanvasSettings", status |-> 0,
               body |-> [error |-> null,
                         success |-> <<"Canvas settings saved successfully">>]]
    /\ calls = <<>>
    /\ client = NoClient
    /\ page = NoPage

\* Every handler that calls Canvas or the language model
NextHandlers ==
    \/ GetCourses
    \/ GetAssignments
    \/ GetAssignment
    \/ GetSubmissions
    \/ GetSubmission
    \/ PutSubmission
    \/ PostGrade

\* The handlers of an onboarded user: none of them writes the stores
SpecHandlers == InitOnboarded /\ [][NextHandlers]_vars

----------------------------------------------------------------------------
(* Properties: what they read *)

ProxyRoutes ==
    { "GET courses", "GET assignments", "GET assignment", "GET submissions",
      "GET submission", "PUT submission" }

\* a field that is there and not empty
Present(s) == s # null /\ s # <<>>

\* the calls of the last operation to one service, in order
CallsTo(svc) == SelectSeq(calls, LAMBDA c : c.svc = svc)

\* the last operation asked the table for the row of the user and got it
RowReturned ==
    /\ Len(CallsTo("user_settings.single")) = 1
    /\ ~CallsTo("user_settings.single")[1].result.threw
    /\ CallsTo("user_settings.single")[1].result.data # nil

\* the table holds one row for the user, with a URL and a token, and the
\* last operation got it
UsableRowReturned ==
    /\ Len(user_settings) = 1
    /\ Present(user_settings[1].canvas_url)
    /\ Present(user_settings[1].canvas_token)
    /\ RowReturned
    /\ CallsTo("user_settings.single")[1].result.data = user_settings[1]

MetadataPair ==
    Present(user_metadata.canvas_url) /\ Present(user_metadata.canvas_token)

----------------------------------------------------------------------------
(* C1 *)

\* C1: in every Canvas-proxy handler, when the user_settings row of the
\* session user holds a non-null, non-empty canvas_url and canvas_token (and
\* the query returned it), the handler does not ask for the user metadata,
\* the Canvas client is built from exactly the pair of the row, and every
\* request to Canvas goes to the base URL of that pair; the only run that
\* builds no client is a PUT whose body could not be read.
C1_TablePairPrecedence ==
    (resp.route \in ProxyRoutes /\ UsableRowReturned) =>
        LET row == user_settings[1]
            fromRow == CanvasApiClient(row.canvas_url, row.canvas_token)
        IN  /\ CallsTo("auth.getUser") = <<>>
            /\ resp.status # 400
            /\ \/ client = fromRow
               \/ /\ resp.route = "PUT submission"
                  /\ resp.status = 500
                  /\ client = NoClient
                  /\ CallsTo("canvas") = <<>>
            /\ \A i \in DOMAIN calls :
                 calls[i].svc = "canvas" =>
                     startsWith(calls[i].url, normalizeCanvasUrl(row.canvas_url) \o ApiPrefix)

\* C1 witness: a grade update answered 200 with the client of the row's
\* pair while the user metadata holds another complete pair
C1_Witness ==
    /\ resp.route = "PUT submission"
    /\ resp.status = 200
    /\ UsableRowReturned
    /\ MetadataPair
    /\ user_metadata.canvas_url # user_settings[1].canvas_url
    /\ user_metadata.canvas_token # user_settings[1].canvas_token
    /\ client = CanvasApiClient(user_settings[1].canvas_url, user_settings[1].canvas_token)
    /\ Len(CallsTo("canvas")) = 1

----------------------------------------------------------------------------
(* C2 *)

\* C2: the dashboard page prefers the settings-table row too: when the table
\* holds one row with a URL and a token and the user metadata holds a URL
\* and a token as well, the Canvas URL that the page displays is the one of
\* the table row.
C2_DashboardPrefersTable ==
    ( /\ resp.route = "DashboardPage"
      /\ resp.status = 200
      /\ Len(user_settings) = 1
      /\ Present(user_settings[1].canvas_url)
      /\ Present(user_settings[1].canvas_token)
      /\ MetadataPair )
    => resp.body.canvasUrl = user_settings[1].canvas_url

----------------------------------------------------------------------------
(* C3, C4, C5 *)

\* the requests of the last operation to Canvas, and what the route
\* parameters of a submission request were
CanvasCalls == CallsTo("canvas")
RouteParams == CourseIds \X AssignmentIds \X UserIds
SubmissionAsked(prm) ==
    /\ Len(CanvasCalls) >= 1
    /\ startsWith(CanvasCalls[1].url,
                  RequestUrl(client.baseUrl, SubmissionEndpoint(prm[1], prm[2], prm[3])))

\* C3: GET submission, when the submission fetch throws and the assignment
\* fetch that follows succeeds: status 200, and the body holds exactly an
\* error string, the fetched assignment and the placeholder submission with
\* id "unknown", user_id = userId, assignment_id = assignmentId and user
\* {id: userId, name: "Student <userId>"}.
C3_DegradePath ==
    \A prm \in RouteParams :
      ( /\ resp.route = "GET submission"
        /\ SubmissionAsked(prm)
        /\ Len(CanvasCalls) = 2
        /\ CanvasCalls[1].result.threw
        /\ ~CanvasCalls[2].result.threw )
      => /\ resp.status = 200
         /\ DOMAIN resp.body = {"error", "assignment", "submission"}
         /\ Present(resp.body.error)
         /\ resp.body.assignment = CanvasCalls[2].result.value
         /\ resp.body.submission.id = <<"unknown">>
         /\ resp.body.submission.user_id = prm[3]
         /\ resp.body.submission.assignment_id = prm[2]
         /\ resp.body.submission.user.id = prm[3]
         /\ resp.body.submission.user.name = <<"Student ">> \o prm[3]

\* C3 witness: the submission fetch threw, the assignment fetch returned
\* the assignment, and the answer is 200 with that assignment
C3_Witness ==
    /\ resp.route = "GET submission"
    /\ Len(CanvasCalls) = 2
    /\ CanvasCalls[1].result.threw
    /\ ~CanvasCalls[2].result.threw
    /\ CanvasCalls[2].result.value = CanvasAssignment
    /\ resp.status = 200
    /\ resp.body.assignment = CanvasAssignment

\* C4: GET submission, when the submission fetch throws and the assignment
\* fetch throws as well: status 404 and a body that holds an error and
\* neither an assignment nor a submission.
C4_BothFetchesThrow ==
    ( /\ resp.route = "GET submission"
      /\ Len(CanvasCalls) = 2
      /\ CanvasCalls[1].result.threw
      /\ CanvasCalls[2].result.threw )
    => /\ resp.status = 404
       /\ DOMAIN resp.body = {"error"}
       /\ Present(resp.body.error)

\* C4 witness: both fetches threw and the answer is 404
C4_Witness ==
    /\ resp.route = "GET submission"
    /\ Len(CanvasCalls) = 2
    /\ CanvasCalls[1].result.threw
    /\ CanvasCalls[2].result.threw
    /\ resp.status = 404

\* C5: every submission that GET submission returns, in the full and in the
\* degraded response, has a user; when Canvas returned a submission with no
\* user, the user of the returned submission has the userId of the route as
\* its id and a non-empty name.
C5_SubmissionHasUser ==
    \A prm \in RouteParams :
      ( /\ resp.route = "GET submission"
        /\ SubmissionAsked(prm)
        /\ "submission" \in DOMAIN resp.body )
      => /\ resp.body.submission # nil
         /\ resp.body.submission.user # nil
         /\ ( /\ ~CanvasCalls[1].result.threw
              /\ CanvasCalls[1].result.value # nil
              /\ CanvasCalls[1].result.value.user = nil )
            => /\ resp.body.submission.user.id = prm[3]
               /\ Present(resp.body.submission.user.name)

\* C5 witness: Canvas returned a submission with no user and the answer is
\* 200 with a submission whose user has the userId of the route
C5_Witness ==
    /\ resp.route = "GET submission"
    /\ resp.status = 200
    /\ Len(CanvasCalls) = 1
    /\ ~CanvasCalls[1].result.threw
    /\ CanvasCalls[1].result.value = CanvasSubmission(nil)
    /\ \E u \in UserIds : resp.body.submission.user.id = u

----------------------------------------------------------------------------
(* C6, C7 *)

\* what the two lookups of the last operation yielded
SessionFound ==
    /\ Len(CallsTo("auth.getSession")) >= 1
    /\ CallsTo("auth.getSession")[1].result.session
TableYieldsPair ==
    /\ RowReturned
    /\ Present(CallsTo("user_settings.single")[1].result.data.canvas_url)
    /\ Present(CallsTo("user_settings.single")[1].result.data.canvas_token)
MetadataAnswered ==
    /\ Len(CallsTo("auth.getUser")) = 1
    /\ ~CallsTo("auth.getUser")[1].result.threw
MetadataYieldsPair ==
    /\ MetadataAnswered
    /\ Present(CallsTo("auth.getUser")[1].result.user_metadata.canvas_url)
    /\ Present(CallsTo("auth.getUser")[1].result.user_metadata.canvas_token)

\* C6: in every Canvas-proxy route, when the session is there and neither
\* the settings table nor the user metadata (both asked, the metadata
\* answered) yields both a URL and a token, the answer is status 400 with
\* the error "Canvas credentials not found. Please complete onboarding.",
\* and nothing is sent to Canvas.
C6_NoCredentials ==
    ( /\ resp.route \in ProxyRoutes
      /\ SessionFound
      /\ Len(CallsTo("user_settings.single")) = 1
      /\ ~TableYieldsPair
      /\ MetadataAnswered
      /\ ~MetadataYieldsPair )
    => /\ resp.status = 400
       /\ resp.body = [error |-> <<"Canvas credentials not found. Please complete onboarding.">>]
       /\ CanvasCalls = <<>>

\* C6 witness: the table row holds a token and no URL, the metadata a URL
\* and no token, and the request for the courses is answered 400
C6_Witness ==
    /\ resp.route = "GET courses"
    /\ resp.status = 400
    /\ RowReturned
    /\ ~Present(CallsTo("user_settings.single")[1].result.data.canvas_url)
    /\ Present(CallsTo("user_settings.single")[1].result.data.canvas_token)
    /\ MetadataAnswered
    /\ Present(CallsTo("auth.getUser")[1].result.user_metadata.canvas_url)
    /\ ~Present(CallsTo("auth.getUser")[1].result.user_metadata.canvas_token)

\* C7: in every Canvas-proxy route, a request with no session is answered
\* with status 401 and the error "Unauthorized", and the session lookup is
\* the only call of the handler: it is made once.
C7_Unauthorized ==
    ( /\ resp.route \in ProxyRoutes
      /\ Len(CallsTo("auth.getSession")) >= 1
      /\ ~CallsTo("auth.getSession")[1].result.threw
      /\ ~CallsTo("auth.getSession")[1].result.session )
    => /\ resp.status = 401
       /\ resp.body = [error |-> <<"Unauthorized">>]
       /\ Len(CallsTo("auth.getSession")) = 1
       /\ Len(calls) = 1

\* C7 witness: a grade update with no session, answered 401, while the
\* stores hold credentials
C7_Witness ==
    /\ resp.route = "PUT submission"
    /\ resp.status = 401
    /\ ~CallsTo("auth.getSession")[1].result.session
    /\ Len(user_settings) = 1
    /\ MetadataPair

----------------------------------------------------------------------------
(* C8 *)

\* C8: PUT submission with a session, resolved credentials and a body that
\* parsed: exactly one request is sent to Canvas, a PUT to
\* courses/<courseId>/assignments/<assignmentId>/submissions/<userId> whose
\* body is the parsed request body, every field of it and nothing else;
\* when Canvas answers, the response is 200 with submission equal to what
\* Canvas returned.
C8_GradeUpdateForwarded ==
    ( /\ resp.route = "PUT submission"
      /\ Len(CallsTo("request.json")) = 1
      /\ ~CallsTo("request.json")[1].result.threw )
    => /\ Len(CanvasCalls) = 1
       /\ CanvasCalls[1].method = "PUT"
       /\ \E prm \in RouteParams :
            CanvasCalls[1].url =
                normalizeCanvasUrl(client.canvasUrl) \o ApiPrefix
                    \o <<"courses", "/">> \o prm[1] \o <<"/", "assignments", "/">> \o prm[2]
                    \o <<"/", "submissions", "/">> \o prm[3]
       /\ CanvasCalls[1].body = JSONStringify(CallsTo("request.json")[1].result.value)
       /\ ~CanvasCalls[1].result.threw =>
              /\ resp.status = 200
              /\ resp.body = [submission |-> CanvasCalls[1].result.value]

\* C8 witness: a grade update with a comment was sent and Canvas's
\* submission came back with status 200
C8_Witness ==
    /\ resp.route = "PUT submission"
    /\ resp.status = 200
    /\ Len(CanvasCalls) = 1
    /\ CallsTo("request.json")[1].result.value = Payload(<<"95">>, <<"Great work">>, null)
    /\ resp.body.submission = CanvasSubmission(CanvasUser)

----------------------------------------------------------------------------
(* C9, C10 *)

ModelCalls == CallsTo("generateText")

\* C9: the grading route, when the model's text is not valid JSON: status
\* 500 and a body that holds an error and a rawResponse equal to the text
\* of the model, unmodified.
C9_RawResponse ==
    ( /\ resp.route = "POST grade-submission"
      /\ Len(ModelCalls) = 1
      /\ ~ModelCalls[1].result.threw
      /\ JSONParse(ModelCalls[1].result.text).threw )
    => /\ resp.status = 500
       /\ DOMAIN resp.body = {"error", "rawResponse"}
       /\ Present(resp.body.error)
       /\ resp.body.rawResponse = ModelCalls[1].result.text

\* C9 witness: the model wrapped its JSON in a code fence, and the fenced
\* text came back as rawResponse
C9_Witness ==
    /\ resp.route = "POST grade-submission"
    /\ resp.status = 500
    /\ Len(ModelCalls) = 1
    /\ ModelCalls[1].result.text = FencedText
    /\ resp.body.rawResponse = FencedText

\* C10: the grading route, when the request body holds no
\* assignmentDescription or no submissionContent (absent or empty): status
\* 400, and the language model is not called.
C10_MissingFields ==
    ( /\ resp.route = "POST grade-submission"
      /\ Len(CallsTo("request.json")) = 1
      /\ ~CallsTo("request.json")[1].result.threw
      /\ \/ CallsTo("request.json")[1].result.value = nil
         \/ ~Present(CallsTo("request.json")[1].result.value.assignmentDescription)
         \/ ~Present(CallsTo("request.json")[1].result.value.submissionContent) )
    => /\ resp.status = 400
       /\ ModelCalls = <<>>

----------------------------------------------------------------------------
(* C11, C12 *)

AIGradingKeys == {"grade", "feedback", "strengths", "areasForImprovement", "summary"}

\* the keys of a parsed JSON value that is an object; none otherwise
KeysOf(v) == IF v.class = "object" THEN { v.keys[i] : i \in DOMAIN v.keys } ELSE {}

\* C11: every 200 response of the grading route carries an object of the
\* AIGrading shape: it has the keys grade, feedback, strengths,
\* areasForImprovement and summary.
C11_GradingShape ==
    (resp.route = "POST grade-submission" /\ resp.status = 200)
    => /\ resp.body.class = "object"
       /\ AIGradingKeys \subseteq KeysOf(resp.body)

\* the prompt handed to the language model, and the request body it was
\* built from
PromptSent == ModelCalls[1].body
BodyRead == CallsTo("request.json")[1].result.value

\* the prompt with this text wherever the points possible appear
PromptWithPoints(b, points) ==
    <<"You are an expert educational assistant [...] ASSIGNMENT DESCRIPTION: ">>
        \o b.assignmentDescription
        \o <<" POINTS POSSIBLE: ">> \o points
        \o (IF Present(b.rubric) THEN <<" RUBRIC: ">> \o b.rubric ELSE <<>>)
        \o <<" STUDENT SUBMISSION: ">> \o b.submissionContent
        \o <<" [...] 1. A suggested grade (out of ">> \o points
        \o <<" points) [...] Format your response as a JSON object [...]">>

\* C12: the grading route's prompt uses 100 as the points possible wherever
\* the points possible appear when the request has no pointsPossible, and
\* the given value when it has one.
C12_PointsInPrompt ==
    (resp.route = "POST grade-submission" /\ Len(ModelCalls) = 1)
    => PromptSent = PromptWithPoints(BodyRead,
                        IF BodyRead.pointsPossible = null THEN <<"100">>
                        ELSE BodyRead.pointsPossible)

----------------------------------------------------------------------------
(* The Canvas client on its own: lib/canvas-api.ts                         *)
(*                                                                         *)
(* SpecClient applies normalizeCanvasUrl and the operations of a client    *)
(* to base URLs, endpoints and fetch outcomes drawn from the sets below.   *)
(* resp holds the arguments and the result of the last application, calls  *)
(* the request it sent.                                                    *)

\* how many slashes a base URL may end with, and an endpoint start with
MaxSlashes == 2

Foo == <<"f", "o", "o", ".", "e", "d", "u">>
Slashes(n) == [i \in 1..n |-> "/"]

\* base URLs: with and without a scheme, with and without trailing slashes
ClientUrls ==
    { scheme \o Foo \o Slashes(n) :
        scheme \in {<<>>, SchemeHttp, SchemeHttps}, n \in 0..MaxSlashes }

\* endpoints: as the typed operations build them, and with leading slashes
ClientEndpoints == { Slashes(n) \o <<"users", "/", "self">> : n \in 0..MaxSlashes }

\* the current user as Canvas returns it; a field Canvas did not send is null
CanvasProfile(email, login_id) ==
    [id |-> <<"u9">>, name |-> <<"Ada Lovelace">>, email |-> email,
     login_id |-> login_id, avatar_url |-> <<"ada.png">>]

CanvasProfiles ==
    { CanvasProfile(e, l) : e \in {<<"ada@school.edu">>, <<>>, null},
                            l \in {<<"ada">>, null} }

FetchFailed == <<"fetch failed">>

\* every way a fetch can fail: a refusal with a message, with a message
\* that is empty, with none, with a body that is not JSON, with a message
\* that reads like the network's; a network failure as a browser and as
\* Node word it; a rejection with a value that is no Error; a 200 whose
\* body is not JSON
ClientFailures ==
    { HttpError(<<"404">>, <<"Not Found">>, TRUE, NotFoundMessage),
      HttpError(<<"500">>, <<"Internal Server Error">>, TRUE, <<>>),
      HttpError(<<"401">>, <<"Unauthorized">>, TRUE, null),
      HttpError(<<"502">>, <<"Bad Gateway">>, FALSE, null),
      HttpError(<<"400">>, <<"Bad Request">>, TRUE, FailedToFetch),
      NetworkFailure(FailedToFetch),
      NetworkFailure(FetchFailed),
      ThrownValue,
      HttpOkBadBody }

\* what a fetch can do, for request and getUserById and for testConnection
ClientOutcomes ==
    { HttpOk(CanvasProfile(<<"ada@school.edu">>, <<"ada">>)), HttpOk(nil) } \cup ClientFailures
ProfileOutcomes == { HttpOk(p) : p \in CanvasProfiles } \cup { HttpOk(nil) } \cup ClientFailures

\* A variant without the try/catch: what request does is what the caller gets.
getUserById_NoCatch(c, userId, throwOnError, out) ==
    Sent("GET", c, <<"users", "/">> \o userId, <<>>, throwOnError, out)

\* getUserById(userId, throwOnError = false)
getUserById(c, userId, throwOnError, out) ==
    LET s == Sent("GET", c, <<"users", "/">> \o userId, <<>>, throwOnError, out)
    IN  [res |-> IF s.res.threw /\ ~throwOnError THEN Returned(nil) ELSE s.res,
         call |-> s.call]

ReadOfNull == <<"Cannot read properties of null (reading 'id')">>

\* A variant that reports the login_id whenever the user has one.
EmailOrLogin_LoginFirst(user) == IF Truthy(user.login_id) THEN user.login_id ELSE user.email

\* user.email || user.login_id
EmailOrLogin(user) == IF Truthy(user.email) THEN user.email ELSE user.login_id

\* testConnection()
testConnection(c, out) ==
    LET s == getCurrentUser(c, out)
        user == s.res.value
    IN  [res |-> IF s.res.threw THEN s.res
                 ELSE IF user = nil THEN Threw(ReadOfNull)
                 ELSE Returned([success |-> TRUE,
                                user |-> [id |-> user.id, name |-> user.name,
                                          email |-> EmailOrLogin(user),
                                          avatar_url |-> user.avatar_url]]),
         call |-> s.call]

\* the last application: its name, its arguments and its result
Applied(name, args, res, cs, c) ==
    [resp |-> [route |-> name, status |-> 0, body |-> [args |-> args, res |-> res]],
     calls |-> cs, client |-> c]

NormalizeUrl ==
    \E url \in ClientUrls :
        LET o == Applied("normalizeCanvasUrl", [url |-> url],
                         [once |-> normalizeCanvasUrl(url),
                          twice |-> normalizeCanvasUrl(normalizeCanvasUrl(url))],
                         <<>>, NoClient)
        IN  /\ Leaves(o)
            /\ o.resp.route = "normalizeCanvasUrl"

Request ==
    \E url \in ClientUrls, endpoint \in ClientEndpoints, throwOnError \in BOOLEAN :
      \E out \in ClientOutcomes :
        LET c == CanvasApiClient(url, Token1)
            s == Sent("GET", c, endpoint, <<>>, throwOnError, out)
            o == Applied("request",
                         [endpoint |-> endpoint, throwOnError |-> throwOnError, out |-> out],
                         s.res, <<s.call>>, c)
        IN  /\ Leaves(o)
            /\ o.resp.route = "request"

GetUserById ==
    \E url \in {Foo}, userId \in UserIds, throwOnError \in BOOLEAN :
      \E out \in ClientOutcomes :
        LET c == CanvasApiClient(url, Token1)
            s == getUserById(c, userId, throwOnError, out)
            o == Applied("getUserById",
                         [userId |-> userId, throwOnError |-> throwOnError, out |-> out],
                         s.res, <<s.call>>, c)
        IN  /\ Leaves(o)
            /\ o.resp.route = "getUserById"

TestConnection ==
    \E url \in {Foo}, out \in ProfileOutcomes :
        LET c == CanvasApiClient(url, Token1)
            s == testConnection(c, out)
            o == Applied("testConnection", [out |-> out], s.res, <<s.call>>, c)
        IN  /\ Leaves(o)
            /\ o.resp.route = "testConnection"

NextClient ==
    \/ NormalizeUrl
    \/ Request
    \/ GetUserById
    \/ TestConnection

SpecClient == Init /\ [][NextClient]_vars

----------------------------------------------------------------------------
(* C13 .. C19: properties of SpecClient *)

Args == resp.body.args
Res == resp.body.res

RECURSIVE TrimRight(_)
\* s without the slashes it ends with
TrimRight(s) == IF endsWith(s, <<"/">>) THEN TrimRight(SubSeq(s, 1, Len(s) - 1)) ELSE s

RECURSIVE TrimLeft(_)
\* s without the slashes it starts with
TrimLeft(s) == IF startsWith(s, <<"/">>) THEN TrimLeft(Tail(s)) ELSE s

HasScheme(url) == startsWith(url, SchemeHttp) \/ startsWith(url, SchemeHttps)

\* C13: for every base URL and endpoint, the URL that request fetches is
\* the base URL (https:// prefixed when it has no scheme), "api/v1" and the
\* endpoint with exactly one slash between the three, whatever slashes the
\* base URL ended with.  For an endpoint that starts with no slash this is
\* normalizeCanvasUrl(baseUrl) + "api/v1/" + endpoint.
C13_RequestUrl ==
    resp.route = "request"
    => calls[1].url =
           (IF HasScheme(client.canvasUrl) THEN <<>> ELSE SchemeHttps)
               \o TrimRight(client.canvasUrl) \o <<"/">> \o <<"api", "/", "v1">>
               \o <<"/">> \o TrimLeft(Args.endpoint)

\* C14: normalizeCanvasUrl is idempotent, and "foo.edu", "https://foo.edu"
\* and "https://foo.edu/" all normalize to "https://foo.edu/".
C14_Idempotent ==
    resp.route = "normalizeCanvasUrl"
    => /\ Res.twice = Res.once
       /\ Args.url \in {Foo, SchemeHttps \o Foo, SchemeHttps \o Foo \o <<"/">>}
          => Res.once = SchemeHttps \o Foo \o <<"/">>

\* C14 witness: "foo.edu" was normalized, to "https://foo.edu/", and
\* normalizing that again changed nothing
C14_Witness ==
    /\ resp.route = "normalizeCanvasUrl"
    /\ Args.url = Foo
    /\ Res.once = <<"h", "t", "t", "p", "s", ":", "/", "/", "f", "o", "o", ".", "e", "d", "u", "/">>
    /\ Res.twice = Res.once

\* C15: the result of normalizeCanvasUrl starts with a scheme (https:// is
\* prefixed when the input has none) and ends with exactly one slash.
C15_SchemeAndOneSlash ==
    resp.route = "normalizeCanvasUrl"
    => /\ HasScheme(Res.once)
       /\ (~HasScheme(Args.url)) => startsWith(Res.once, SchemeHttps \o Args.url)
       /\ endsWith(Res.once, <<"/">>)
       /\ ~endsWith(Res.once, <<"/", "/">>)

\* C16: request on a non-success status: the failure message is the
\* errors[0].message of the error body when the body parses and holds one,
\* else "Canvas API error: <status> <statusText>"; with throwOnError the
\* call raises an error with exactly that message, without it the call
\* returns null.
C16_FailureMessage ==
    (resp.route = "request" /\ Args.out.kind = "http" /\ ~Args.out.ok)
    => LET message ==
               IF Args.out.bodyOk /\ Present(Args.out.errMessage)
               THEN Args.out.errMessage
               ELSE <<"Canvas API error: ">> \o Args.out.status \o <<" ">>
                        \o Args.out.statusText
       IN  IF Args.throwOnError
           THEN Res.threw /\ Res.error = message
           ELSE ~Res.threw /\ Res.value = nil

\* C17: request on a network failure of fetch: the caller gets an error
\* whose message names the request URL and suggests checking the Canvas URL
\* and the network, for every value of throwOnError.
C17_NetworkFailureSurfaced ==
    (resp.route = "request" /\ Args.out.kind = "network")
    => /\ Res.threw
       /\ Res.error = <<"Network error when connecting to Canvas API at ">> \o calls[1].url
                          \o <<". Please check your Canvas URL and network connection.">>

\* the fetch did not yield a parsed body of a success
FetchFailure(out) == out.kind # "http" \/ ~out.ok \/ ~out.bodyOk

\* C18: getUserById without throwOnError never throws, and returns null
\* for every failure of the fetch (non-success status, network failure,
\* unparsable body); with throwOnError = true it throws the failure that
\* request threw.
C18_GetUserById ==
    resp.route = "getUserById"
    => /\ ~Args.throwOnError => ~Res.threw
       /\ (~Args.throwOnError /\ FetchFailure(Args.out)) => Res.value = nil
       /\ (Args.throwOnError /\ FetchFailure(Args.out))
          => /\ Res.threw
             /\ Res = request(client, <<"users", "/">> \o Args.userId, TRUE, Args.out)

\* C18 witness: without throwOnError, a 200 whose body is not JSON (the one
\* failure request itself lets through) came back as null
C18_Witness ==
    /\ resp.route = "getUserById"
    /\ ~Args.throwOnError
    /\ Args.out = HttpOkBadBody
    /\ ~Res.threw
    /\ Res.value = nil

----------------------------------------------------------------------------
(* C20 *)

\* C20: GET assignment, with a session and credentials resolved from the
\* table or from the metadata: one request goes to Canvas; the answer is
\* 200 with the assignment if and only if the Canvas client returned an
\* assignment that is not absent, and 404 when it returned none or threw.
C20_AssignmentOr404 ==
    ( /\ resp.route = "GET assignment"
      /\ SessionFound
      /\ (TableYieldsPair \/ MetadataYieldsPair) )
    => /\ Len(CanvasCalls) = 1
       /\ IF ~CanvasCalls[1].result.threw /\ CanvasCalls[1].result.value # nil
          THEN /\ resp.status = 200
               /\ resp.body = [assignment |-> CanvasCalls[1].result.value]
          ELSE resp.status = 404

\* C20 witness: Canvas answered 200 with the body null, the client returned
\* null, and the handler answered 404
C20_Witness ==
    /\ resp.route = "GET assignment"
    /\ SessionFound
    /\ Len(CanvasCalls) = 1
    /\ ~CanvasCalls[1].result.threw
    /\ CanvasCalls[1].result.value = nil
    /\ resp.status = 404

----------------------------------------------------------------------------
(* C21 *)

\* the session lookup or the lookup of the user metadata threw
AuthLookupThrew ==
    \/ (Len(CallsTo("auth.getSession")) = 1 /\ CallsTo("auth.getSession")[1].result.threw)
    \/ (Len(CallsTo("auth.getUser")) = 1 /\ CallsTo("auth.getUser")[1].result.threw)

\* C21 as stated: the GET submission route only ever answers with status
\* 200, 400, 401 or 404, whatever the session lookup, the credential lookup
\* and the Canvas calls do.
C21_FourStatuses ==
    resp.route = "GET submission" => resp.status \in {200, 400, 401, 404}

\* C21 as amended: the GET submission route only ever answers with status
\* 200, 400, 401, 404 or 500; it answers 500 exactly when the session
\* lookup or the lookup of the user metadata throws (the catch-all), and no
\* outcome of the settings query or of the Canvas calls makes it answer 500.
C21_FiveStatuses ==
    resp.route = "GET submission"
    => /\ resp.status \in {200, 400, 401, 404, 500}
       /\ resp.status = 500 <=> AuthLookupThrew

\* C21 witness: the lookup of the user metadata threw after the session
\* check passed, and the answer was 500
C21_Witness ==
    /\ resp.route = "GET submission"
    /\ SessionFound
    /\ Len(CallsTo("auth.getUser")) = 1
    /\ CallsTo("auth.getUser")[1].result.threw
    /\ resp.status = 500

----------------------------------------------------------------------------
(* The sign-in routes: the start of the OAuth flow and its callback.      *)
(* Neither has a try around its body: when an awaited call throws, the    *)
(* handler's promise rejects and the handler returns no response, which   *)
(* is status 0 here, with the exception as the body.                      *)

Origin == <<"https://grader.example">>
ProviderUrl == <<"https://canvas.example/login/oauth2/auth">>

\* the handler returned no response: the exception left it
Rejected(thrown) == Json(0, [exception |-> thrown.error])

\* NextResponse.redirect(location)
Redirect(location) == Json(307, [redirect |-> location])

\* supabase.auth.signInWithOAuth: the provider's URL, an error result, a throw
OAuthOutcomes == {"url", "error", "throw"}
\* supabase.auth.exchangeCodeForSession: its result is not looked at
ExchangeOutcomes == {"ok", "error", "throw"}
\* the code parameter of the callback: absent, or a code
Codes == {null, <<"code-1">>}

\* POST: start the OAuth flow with Canvas
POST_oauth(oauthOut) ==
    LET callbackUrl == Origin \o <<"/api/auth/callback">>
        oauthCall == <<Call("auth.signInWithOAuth", "canvas", <<>>, callbackUrl,
                            [threw |-> oauthOut = "throw"])>>
    IN  IF oauthOut = "throw"
        THEN Outcome("POST oauth", Rejected(Threw(AuthError)), oauthCall, NoClient)
        ELSE IF oauthOut = "error"
        THEN Outcome("POST oauth", Json(400, [error |-> <<"Unsupported provider">>]),
                     oauthCall, NoClient)
        ELSE Outcome("POST oauth", Redirect(ProviderUrl), oauthCall, NoClient)

\* GET auth/callback
GET_callback(code, exchangeOut, sessionOut, userOut, settingsOut) ==
    LET exchangeCall == <<Call("auth.exchangeCodeForSession", "", <<>>, code,
                               [threw |-> exchangeOut = "throw"])>>
        sessionCall == <<getSession(sessionOut)>>
        userCall == <<Call("auth.getUser", "", <<>>, <<>>, userOut)>>
        tableCall == <<Call("user_settings.limit", "SELECT", <<>>, <<>>,
                            [threw |-> settingsOut.threw, rows |-> settingsOut.data])>>
        found == /\ ~settingsOut.threw
                 /\ ~Truthy(settingsOut.error)
                 /\ Len(settingsOut.data) > 0
    IN  IF ~Truthy(code)
        THEN Outcome("GET auth/callback", Redirect(Origin \o <<"/login">>), <<>>, NoClient)
        ELSE IF exchangeOut = "throw"
        THEN Outcome("GET auth/callback", Rejected(Threw(AuthError)), exchangeCall, NoClient)
        ELSE IF sessionOut = "throw"
        THEN Outcome("GET auth/callback", Rejected(Threw(AuthError)),
                     exchangeCall \o sessionCall, NoClient)
        ELSE IF sessionOut = "none"
        THEN Outcome("GET auth/callback", Redirect(Origin \o <<"/login">>),
                     exchangeCall \o sessionCall, NoClient)
        ELSE IF userOut.threw
        THEN Outcome("GET auth/callback", Rejected(Threw(AuthError)),
                     exchangeCall \o sessionCall \o userCall, NoClient)
        ELSE IF userOut.user_metadata.canvas_connected
        THEN Outcome("GET auth/callback", Redirect(Origin \o <<"/dashboard">>),
                     exchangeCall \o sessionCall \o userCall, NoClient)
        ELSE Outcome("GET auth/callback",
                     Redirect(Origin \o (IF found THEN <<"/dashboard">> ELSE <<"/onboarding">>)),
                     exchangeCall \o sessionCall \o userCall \o tableCall, NoClient)

PostOAuth ==
    \E oauthOut \in OAuthOutcomes :
        LET o == POST_oauth(oauthOut)
        IN  /\ Leaves(o)
            /\ o.resp.route = "POST oauth"

GetCallback ==
    \E code \in Codes :
      \E exchangeOut \in Input(Truthy(code), ExchangeOutcomes, "ok") :
        \E sessionOut \in Input(Truthy(code) /\ exchangeOut # "throw", SessionOutcomes, "none") :
          \E userOut \in Input(Truthy(code) /\ exchangeOut # "throw" /\ sessionOut = "session", UserResults, UnreadUser) :
            \E fault \in Input(Truthy(code) /\ exchangeOut # "throw" /\ sessionOut = "session" /\ ~userOut.threw /\ ~userOut.user_metadata.canvas_connected, SettingsFaults, "none") :
              LET o == GET_callback(code, exchangeOut, sessionOut, userOut, limit1(user_settings, fault, 1))
              IN  /\ Leaves(o)
                  /\ o.resp.route = "GET auth/callback"

\* The sign-in routes, and the onboarding save that fills the stores the
\* callback reads
NextAuth ==
    \/ PostOAuth
    \/ GetCallback
    \/ SaveCanvasSettings

SpecAuth == Init /\ [][NextAuth]_vars

----------------------------------------------------------------------------
(* C22 *)

AuthRoutes == {"POST oauth", "GET auth/callback"}

\* a call of the last operation threw, and no try of the handler encloses it
UncaughtThrow ==
    \E i \in DOMAIN calls : calls[i].result.threw /\ calls[i].svc # "user_settings.limit"

\* C22: every route handler has a catch-all: when an awaited call throws an
\* exception that no inner try handles, the handler answers with status 500
\* and a JSON body that holds only an error message, and no exception
\* leaves the handler.
C22_CatchAllEverywhere ==
    (resp.route \in AuthRoutes /\ UncaughtThrow)
    => /\ resp.status = 500
       /\ DOMAIN resp.body = {"error"}
       /\ Present(resp.body.error)

----------------------------------------------------------------------------
(* C23 *)

\* a call to Canvas or to the language model threw
ExternalCallFailed ==
    \/ \E i \in DOMAIN CanvasCalls : CanvasCalls[i].result.threw
    \/ \E i \in DOMAIN ModelCalls : ModelCalls[i].result.threw

\* C23: no handler retries a failed external call: within one request no
\* Canvas URL is requested twice and the language model is called at most
\* once, and when such a call fails the response holds an error message.
C23_NoRetry ==
    resp.route \in ProxyRoutes \cup {"POST grade-submission"}
    => /\ \A i, j \in DOMAIN CanvasCalls :
              i # j => CanvasCalls[i].url # CanvasCalls[j].url
       /\ Len(ModelCalls) <= 1
       /\ ExternalCallFailed
          => ("error" \in DOMAIN resp.body /\ Present(resp.body.error))

\* C23 witness: the call of the language model threw; it was made once and
\* the answer is 500
C23_Witness ==
    /\ resp.route = "POST grade-submission"
    /\ Len(ModelCalls) = 1
    /\ ModelCalls[1].result.threw
    /\ resp.status = 500

----------------------------------------------------------------------------
(* C24 *)

\* C24: after any sequence of onboarding saves by the user, the settings
\* table holds at most one row for that user: the first save creates the
\* row and every later save updates it.
C24_AtMostOneRow == Len(user_settings) <= 1

----------------------------------------------------------------------------
(* C25 *)

TableAsked == Len(CallsTo("user_settings.single")) = 1

\* C25: in every Canvas-proxy handler, when the settings query yields no
\* usable pair (it returns an error, no row or several rows included, it
\* throws, or its row has a null or empty URL or token) and the user
\* metadata holds both canvas_url and canvas_token, the handler goes on with
\* the pair of the metadata: it does not answer 400 or 401, the client is
\* built from that pair and every request to Canvas goes to its base URL;
\* the only run that builds no client is a PUT whose body could not be read.
C25_FallThrough ==
    ( /\ resp.route \in ProxyRoutes
      /\ SessionFound
      /\ TableAsked
      /\ ~TableYieldsPair
      /\ MetadataYieldsPair )
    => LET md == CallsTo("auth.getUser")[1].result.user_metadata
       IN  /\ resp.status \notin {400, 401}
           /\ \/ /\ client.built
                 /\ client.canvasUrl = md.canvas_url
                 /\ client.token = md.canvas_token
                 /\ Len(CanvasCalls) >= 1
              \/ /\ resp.route = "PUT submission"
                 /\ resp.status = 500
                 /\ client = NoClient
                 /\ CanvasCalls = <<>>
           /\ \A i \in DOMAIN CanvasCalls :
                startsWith(CanvasCalls[i].url, client.baseUrl \o ApiPrefix)

\* C25 witness: the settings query threw, the metadata held a pair, and the
\* courses were fetched with the client of that pair
C25_Witness ==
    /\ resp.route = "GET courses"
    /\ resp.status = 200
    /\ TableAsked
    /\ CallsTo("user_settings.single")[1].result.threw
    /\ MetadataYieldsPair
    /\ client.canvasUrl = user_metadata.canvas_url
    /\ client.token = user_metadata.canvas_token

----------------------------------------------------------------------------
(* C26 *)

\* C26: the pair a Canvas-proxy handler uses never mixes sources: the URL
\* and the token of the client are both those of the row the settings query
\* returned or both those of the user metadata; when neither source alone
\* holds both fields (the metadata asked and answered), the handler answers
\* 400 and builds no client, even if the two together hold a URL and a
\* token.
C26_NoMixing ==
    resp.route \in ProxyRoutes
    => /\ client.built
          => \/ /\ RowReturned
                /\ client.canvasUrl = CallsTo("user_settings.single")[1].result.data.canvas_url
                /\ client.token = CallsTo("user_settings.single")[1].result.data.canvas_token
             \/ /\ MetadataAnswered
                /\ client.canvasUrl = CallsTo("auth.getUser")[1].result.user_metadata.canvas_url
                /\ client.token = CallsTo("auth.getUser")[1].result.user_metadata.canvas_token
       /\ (SessionFound /\ TableAsked /\ ~TableYieldsPair
             /\ MetadataAnswered /\ ~MetadataYieldsPair)
          => /\ resp.status = 400
             /\ client = NoClient
             /\ CanvasCalls = <<>>

\* C26 witness: the row holds a URL and no token, the metadata a token and
\* no URL, and the handler answered 400
C26_Witness ==
    /\ resp.route \in ProxyRoutes
    /\ RowReturned
    /\ Present(CallsTo("user_settings.single")[1].result.data.canvas_url)
    /\ ~Present(CallsTo("user_settings.single")[1].result.data.canvas_token)
    /\ MetadataAnswered
    /\ ~Present(CallsTo("auth.getUser")[1].result.user_metadata.canvas_url)
    /\ Present(CallsTo("auth.getUser")[1].result.user_metadata.canvas_token)
    /\ resp.status = 400
    /\ client = NoClient

----------------------------------------------------------------------------
(* C27 *)

LookupServices == {"auth.getSession", "user_settings.single", "auth.getUser"}

\* C27: in every Canvas-proxy handler a request goes to Canvas only after
\* the session check passed and a pair was resolved: every lookup precedes
\* every Canvas request in the order of the calls, and a 400 or 401 answer
\* means that nothing was sent to Canvas.  In GET submission the assignment
\* is requested only after the submission request failed, and never when it
\* succeeded.
C27_Ordering ==
    resp.route \in ProxyRoutes
    => /\ CanvasCalls # <<>>
          => /\ SessionFound
             /\ (TableYieldsPair \/ MetadataYieldsPair)
             /\ \A i, j \in DOMAIN calls :
                  (calls[i].svc = "canvas" /\ calls[j].svc \in LookupServices) => j < i
       /\ resp.status \in {400, 401} => CanvasCalls = <<>>
       /\ resp.route = "GET submission"
          => /\ Len(CanvasCalls) <= 2
             /\ \A prm \in RouteParams :
                  Len(CanvasCalls) = 2
                  => /\ CanvasCalls[1].url # CanvasCalls[2].url
                     /\ CanvasCalls[1].result.threw
                     /\ CanvasCalls[2].url
                          = client.baseUrl \o ApiPrefix \o AssignmentEndpoint(prm[1], prm[2])
             /\ (Len(CanvasCalls) >= 1 /\ ~CanvasCalls[1].result.threw)
                => Len(CanvasCalls) = 1

\* C27 witness: the submission request succeeded and nothing else was asked
\* of Canvas
C27_Witness ==
    /\ resp.route = "GET submission"
    /\ resp.status = 200
    /\ Len(CanvasCalls) = 1
    /\ ~CanvasCalls[1].result.threw
    /\ CanvasCalls[1].result.value # nil

----------------------------------------------------------------------------
(* C28 *)

\* C28: request with throwOnError = false never rejects: for every outcome
\* of fetch and of the reading of the body it resolves, and to null when
\* the fetch failed (a non-success status, a network failure, a success
\* whose body is not valid JSON).
C28_NeverRejects ==
    (resp.route = "request" /\ ~Args.throwOnError)
    => /\ ~Res.threw
       /\ FetchFailure(Args.out) => Res.value = nil

----------------------------------------------------------------------------
(* The submission grading page *)

\* What a fetch of the browser hands to the page: it rejected (threw), or a
\* response came, ok or not, whose body parses to data (bodyOk) or does not.
Answer(r) ==
    [threw |-> FALSE, ok |-> r.status \in 200..299, bodyOk |-> TRUE, data |-> r.body]
Unreachable == [threw |-> TRUE, ok |-> FALSE, bodyOk |-> FALSE, data |-> nil]
ErrorPage == [threw |-> FALSE, ok |-> FALSE, bodyOk |-> FALSE, data |-> nil]

\* data.f of a parsed body: undefined when the body has no such property
StringOf(data, f) == IF f \in DOMAIN data THEN data[f] ELSE null
ObjectOf(data, f) == IF f \in DOMAIN data THEN data[f] ELSE nil

\* what GET assignment and GET submission can answer to the page
AssignmentAnswers(courseId, assignmentId) ==
    UNION { { Answer(GET_assignment(courseId, assignmentId, in[1], in[2], in[3], out).resp) :
                out \in Input(Reaches(in), AssignmentOutcomes, UnreadFetch) } :
            in \in AuthInputs } \cup {Unreachable, ErrorPage}
SubmissionAnswers(courseId, assignmentId, userId) ==
    UNION { UNION { { Answer(GET_submission(courseId, assignmentId, userId,
                                            <<"user", "submission_comments">>,
                                            in[1], in[2], in[3], subOut, asgOut).resp) :
                        asgOut \in Input(Reaches(in) /\ request(NoClient, <<>>, TRUE, subOut).threw,
                                         FallbackOutcomes, UnreadFetch) } :
                    subOut \in Input(Reaches(in), SubmissionOutcomes, UnreadFetch) } :
            in \in AuthInputs } \cup {Unreachable, ErrorPage}

\* useState: the component state of the first render; the two fetches have
\* not been started
SubmissionGradingPage ==
    [name |-> "SubmissionGradingPage", assignment |-> nil, submission |-> nil,
     isLoadingAssignment |-> TRUE, isLoadingSubmission |-> TRUE, error |-> null,
     fetchAssignment |-> "idle", fetchSubmission |-> "idle"]

\* useEffect: fetchAssignment() and then fetchSubmission(), each run up to
\* its await of fetch
useEffect(p) ==
    [p EXCEPT !.isLoadingAssignment = TRUE, !.error = null, !.fetchAssignment = "awaiting",
              !.isLoadingSubmission = TRUE, !.fetchSubmission = "awaiting"]

\* A variant whose catch clears the assignment.
fetchAssignment_ClearsOnError(p, out) ==
    LET fails(message) == [p EXCEPT !.error = message, !.assignment = nil,
                                    !.isLoadingAssignment = FALSE, !.fetchAssignment = "done"]
    IN  IF out.threw THEN fails(FailedToFetch)
        ELSE IF ~out.bodyOk THEN fails(UnexpectedToken)
        ELSE IF ~out.ok
        THEN fails(IF Truthy(StringOf(out.data, "error")) THEN StringOf(out.data, "error")
                   ELSE <<"Failed to fetch assignment">>)
        ELSE [p EXCEPT !.assignment = ObjectOf(out.data, "assignment"),
                       !.isLoadingAssignment = FALSE, !.fetchAssignment = "done"]

\* fetchAssignment from the answer of its fetch on: try, catch, finally
fetchAssignment(p, out) ==
    LET fails(message) == [p EXCEPT !.error = message,
                                    !.isLoadingAssignment = FALSE, !.fetchAssignment = "done"]
    IN  IF out.threw THEN fails(FailedToFetch)
        ELSE IF ~out.bodyOk THEN fails(UnexpectedToken)
        ELSE IF ~out.ok
        THEN fails(IF Truthy(StringOf(out.data, "error")) THEN StringOf(out.data, "error")
                   ELSE <<"Failed to fetch assignment">>)
        ELSE [p EXCEPT !.assignment = ObjectOf(out.data, "assignment"),
                       !.isLoadingAssignment = FALSE, !.fetchAssignment = "done"]

\* the submission the page makes up when it could not fetch one
PlaceholderSubmission(assignmentId, userId) ==
    [id |-> <<"unknown">>, user_id |-> userId, assignment_id |-> assignmentId,
     submitted_at |-> null, graded_at |-> null, score |-> null, grade |-> null,
     workflow_state |-> <<"unsubmitted">>, submission_type |-> null, body |-> null,
     url |-> null, user |-> [id |-> userId, name |-> <<"Student ">> \o userId]]

\* fetchSubmission from the answer of its fetch on.  The submission its catch
\* tests is the one of the render that started it: captured.
fetchSubmission(p, captured, assignmentId, userId, out) ==
    LET data == out.data
        sent == ObjectOf(data, "submission")
        submission == IF TruthyObj(sent) /\ ~TruthyObj(ObjectOf(sent, "user"))
                      THEN [f \in DOMAIN sent \cup {"user"} |->
                              IF f = "user" THEN [id |-> userId, name |-> <<"Student ">> \o userId]
                              ELSE sent[f]]
                      ELSE sent
        finally(q) == [q EXCEPT !.isLoadingSubmission = FALSE, !.fetchSubmission = "done"]
    IN  IF out.threw \/ ~out.bodyOk \/ ~out.ok
        THEN finally(IF ~TruthyObj(captured)
                     THEN [p EXCEPT !.submission = PlaceholderSubmission(assignmentId, userId)]
                     ELSE p)
        ELSE finally([p EXCEPT !.assignment =
                                   IF Truthy(StringOf(data, "error"))
                                        /\ TruthyObj(ObjectOf(data, "assignment"))
                                   THEN data.assignment ELSE @,
                               !.submission = submission])

AssignmentPath(courseId, assignmentId) ==
    <<"/api/canvas/courses/">> \o courseId \o <<"/assignments/">> \o assignmentId
SubmissionPath(courseId, assignmentId, userId) ==
    AssignmentPath(courseId, assignmentId) \o <<"/submissions/">> \o userId
        \o <<"?include[]=user&include[]=submission_comments">>

\* the page is opened: its first render
OpenGradingPage ==
    /\ page' = SubmissionGradingPage
    /\ page'.name = "SubmissionGradingPage"
    /\ calls' = <<>>
    /\ UNCHANGED <<user_settings, user_metadata, resp, client>>

\* the effect of the first render starts the two fetches
StartFetches ==
    /\ page.name = "SubmissionGradingPage"
    /\ page.fetchAssignment = "idle"
    /\ page' = useEffect(page)
    /\ page'.fetchSubmission = "awaiting"
    /\ UNCHANGED <<user_settings, user_metadata, resp, calls, client>>

\* the fetch of fetchAssignment is answered and fetchAssignment runs to its end
AssignmentFetched ==
    /\ page.name = "SubmissionGradingPage"
    /\ page.fetchAssignment = "awaiting"
    /\ \E courseId \in CourseIds, assignmentId \in AssignmentIds :
         \E out \in AssignmentAnswers(courseId, assignmentId) :
           /\ page' = fetchAssignment(page, out)
           /\ page'.fetchAssignment = "done"
           /\ calls' = Append(calls, Call("fetch", "GET",
                                          AssignmentPath(courseId, assignmentId), <<>>, out))
    /\ UNCHANGED <<user_settings, user_metadata, resp, client>>

\* the fetch of fetchSubmission is answered and fetchSubmission runs to its end
SubmissionFetched ==
    /\ page.name = "SubmissionGradingPage"
    /\ page.fetchSubmission = "awaiting"
    /\ \E courseId \in CourseIds, assignmentId \in AssignmentIds, userId \in UserIds :
         \E out \in SubmissionAnswers(courseId, assignmentId, userId) :
           /\ page' = fetchSubmission(page, SubmissionGradingPage.submission,
                                      assignmentId, userId, out)
           /\ page'.fetchSubmission = "done"
           /\ calls' = Append(calls, Call("fetch", "GET",
                                          SubmissionPath(courseId, assignmentId, userId),
                                          <<>>, out))
    /\ UNCHANGED <<user_settings, user_metadata, resp, client>>

NextGrading ==
    \/ OpenGradingPage
    \/ StartFetches
    \/ AssignmentFetched
    \/ SubmissionFetched

\* The submission grading page of an onboarded user
SpecGrading == InitOnboarded /\ [][NextGrading]_vars

----------------------------------------------------------------------------
(* C29 *)

\* an answer of a fetch of the page that carried an assignment
CarriedAssignment(out) ==
    ~out.threw /\ out.bodyOk /\ TruthyObj(ObjectOf(out.data, "assignment"))
BothCompleted ==
    /\ page.name = "SubmissionGradingPage"
    /\ page.fetchAssignment = "done"
    /\ page.fetchSubmission = "done"

\* C29: fetchAssignment and fetchSubmission are started together and end in
\* either order with any answer; once both have ended, neither loading flag
\* is set, the submission is an object with a user, and the assignment is an
\* object whenever one of the two answers carried an assignment.
C29_BothCompleted ==
    BothCompleted =>
        /\ ~page.isLoadingAssignment
        /\ ~page.isLoadingSubmission
        /\ TruthyObj(page.submission)
        /\ TruthyObj(ObjectOf(page.submission, "user"))
        /\ (\E i \in 1..Len(calls) : CarriedAssignment(calls[i].result))
              => TruthyObj(page.assignment)

\* the submission fetch ended first and carried the assignment; the
\* assignment fetch ended after it and failed
C29_Witness ==
    /\ BothCompleted
    /\ Len(calls) = 2
    /\ \E courseId \in CourseIds, assignmentId \in AssignmentIds, userId \in UserIds :
         /\ calls[1].url = SubmissionPath(courseId, assignmentId, userId)
         /\ calls[2].url = AssignmentPath(courseId, assignmentId)
    /\ CarriedAssignment(calls[1].result)
    /\ ~calls[2].result.ok
    /\ page.assignment = CanvasAssignment

----------------------------------------------------------------------------
(* The onboarding page: the form, Test Connection, Save & Continue *)

\* new URL(url) parses: a scheme, a host after it, no space
isValidUrl(url) ==
    /\ HasScheme(url)
    /\ Len(url) > (IF startsWith(url, SchemeHttps) THEN Len(SchemeHttps) ELSE Len(SchemeHttp))
    /\ \A i \in 1..Len(url) : url[i] # " "

\* normalizeCanvasUrl of the page: a scheme in front, one slash at the end
pageNormalizeCanvasUrl(url) ==
    LET normalizedUrl == IF ~startsWith(url, SchemeHttp) /\ ~startsWith(url, SchemeHttps)
                         THEN SchemeHttps \o url
                         ELSE url
    IN  IF ~endsWith(normalizedUrl, <<"/">>) THEN normalizedUrl \o <<"/">> ELSE normalizedUrl

\* what the user may type into the two fields
UrlBad == <<"a", " ", "b">>
TypedUrls == {UrlBare, UrlBad}
TypedTokens == {Token1, Token2}

\* what POST /api/canvas/test-connection may answer to the page
TestPassed == Answer(Json(200, [user |-> [name |-> <<"Ada Lovelace">>, email |-> <<"ada@a.edu">>]]))
TestRefused == Answer(Json(401, [error |-> <<"Invalid access token">>]))
TestOutcomes == {TestPassed, TestRefused, Unreachable}

\* useState: the component state of the first render; sent is the body of
\* the connection test in flight
OnboardingPage ==
    [name |-> "OnboardingPage", isLoading |-> FALSE, error |-> null, success |-> null,
     canvasSettings |-> [canvasUrl |-> <<>>, canvasToken |-> <<>>],
     isConnected |-> FALSE, canvasUser |-> nil,
     testCanvasConnection |-> "idle",
     sent |-> [canvasUrl |-> <<>>, canvasToken |-> <<>>]]

\* onChange of the two inputs
setCanvasUrl(p, value) == [p EXCEPT !.canvasSettings.canvasUrl = value]
setCanvasToken(p, value) == [p EXCEPT !.canvasSettings.canvasToken = value]

\* the buttons: disabled={...}
TestEnabled(p) ==
    ~(p.isLoading \/ ~Truthy(p.canvasSettings.canvasUrl) \/ ~Truthy(p.canvasSettings.canvasToken))
SaveEnabled(p) == ~(p.isLoading \/ ~p.isConnected)

\* testCanvasConnection up to its await of fetch: the checks of the form
testCanvasConnectionStart(p) ==
    LET s == p.canvasSettings
        fails(message) == [p EXCEPT !.isLoading = FALSE, !.error = message, !.success = null,
                                    !.isConnected = FALSE]
    IN  IF ~Truthy(s.canvasUrl) \/ ~Truthy(s.canvasToken)
        THEN fails(<<"Canvas URL and API token are required">>)
        ELSE IF ~isValidUrl(s.canvasUrl) /\ ~isValidUrl(SchemeHttps \o s.canvasUrl)
        THEN fails(<<"Please enter a valid Canvas URL">>)
        ELSE [p EXCEPT !.isLoading = TRUE, !.error = null, !.success = null,
                       !.testCanvasConnection = "awaiting",
                       !.sent = [canvasUrl |-> pageNormalizeCanvasUrl(s.canvasUrl),
                                 canvasToken |-> s.canvasToken]]

\* testCanvasConnection from the answer of its fetch on
testCanvasConnectionEnd(p, out) ==
    LET fails(message) == [p EXCEPT !.isLoading = FALSE, !.error = message,
                                    !.isConnected = FALSE, !.testCanvasConnection = "idle"]
    IN  IF out.threw THEN fails(FailedToFetch)
        ELSE IF ~out.bodyOk THEN fails(UnexpectedToken)
        ELSE IF ~out.ok
        THEN fails(IF Truthy(StringOf(out.data, "error")) THEN StringOf(out.data, "error")
                   ELSE <<"Failed to connect to Canvas">>)
        ELSE [p EXCEPT !.isLoading = FALSE, !.canvasUser = out.data.user,
                       !.isConnected = TRUE,
                       !.success = <<"Successfully connected to Canvas as ">> \o out.data.user.name,
                       !.canvasSettings.canvasUrl = p.sent.canvasUrl,
                       !.testCanvasConnection = "idle"]

TestConnectionPath == <<"/api/canvas/test-connection">>

\* the page is opened: its first render
OpenOnboardingPage ==
    /\ page' = OnboardingPage
    /\ page'.name = "OnboardingPage"
    /\ calls' = <<>>
    /\ UNCHANGED <<user_settings, user_metadata, resp, client>>

EditUrl ==
    /\ page.name = "OnboardingPage"
    /\ \E value \in TypedUrls : page' = setCanvasUrl(page, value)
    /\ page'.canvasSettings.canvasToken = page.canvasSettings.canvasToken
    /\ UNCHANGED <<user_settings, user_metadata, resp, calls, client>>

EditToken ==
    /\ page.name = "OnboardingPage"
    /\ \E value \in TypedTokens : page' = setCanvasToken(page, value)
    /\ page'.canvasSettings.canvasUrl = page.canvasSettings.canvasUrl
    /\ UNCHANGED <<user_settings, user_metadata, resp, calls, client>>

\* Test Connection is clicked
TestClicked ==
    /\ page.name = "OnboardingPage"
    /\ TestEnabled(page)
    /\ page' = testCanvasConnectionStart(page)
    /\ page'.name = "OnboardingPage"
    /\ UNCHANGED <<user_settings, user_metadata, resp, calls, client>>

\* the connection test is answered; calls keeps the last answered test
TestAnswered ==
    /\ page.name = "OnboardingPage"
    /\ page.testCanvasConnection = "awaiting"
    /\ \E out \in TestOutcomes :
         /\ page' = testCanvasConnectionEnd(page, out)
         /\ calls' = <<Call("fetch", "POST", TestConnectionPath, page.sent, out)>>
    /\ resp' = [route |-> "testCanvasConnection", status |-> 0,
                body |-> [error |-> page'.error, success |-> page'.success]]
    /\ UNCHANGED <<user_settings, user_metadata, client>>

\* Save & Continue is clicked: saveCanvasSettings with the form as it stands
SaveClicked ==
    /\ page.name = "OnboardingPage"
    /\ SaveEnabled(page)
    /\ \E sessionOut \in SessionOutcomes :
         \E insertError \in Input(sessionOut = "session", BOOLEAN, FALSE) :
           \E updateError \in Input(insertError, BOOLEAN, FALSE) :
             \E metaError \in Input(sessionOut = "session" /\ ~updateError, BOOLEAN, FALSE) :
               LET saved == saveCanvasSettings(user_settings, user_metadata,
                                               page.canvasSettings, sessionOut,
                                               insertError, updateError, metaError)
               IN  /\ Len(saved.rows) <= MaxRows
                   /\ user_settings' = saved.rows
                   /\ user_metadata' = saved.metadata
                   /\ resp' = [route |-> "saveCanvasSettings", status |-> saved.result.status,
                               body |-> saved.result.body]
                   /\ page' = [page EXCEPT !.isLoading = FALSE,
                                           !.error = saved.result.body.error,
                                           !.success = saved.result.body.success]
    /\ UNCHANGED <<calls, client>>

NextOnboarding ==
    \/ OpenOnboardingPage
    \/ EditUrl
    \/ EditToken
    \/ TestClicked
    \/ TestAnswered
    \/ SaveClicked

\* The onboarding page of a user who has saved nothing yet
SpecOnboarding == Init /\ [][NextOnboarding]_vars

----------------------------------------------------------------------------
(* C30 *)

\* the most recent connection test that was answered passed with this pair
PassedLastTest(canvasUrl, canvasToken) ==
    /\ Len(calls) = 1
    /\ calls[1].url = TestConnectionPath
    /\ calls[1].result = TestPassed
    /\ calls[1].body = [canvasUrl |-> canvasUrl, canvasToken |-> canvasToken]

\* C30: over any sequence of edits, connection tests and saves, the Canvas
\* URL and token that saveCanvasSettings writes, to the table or to the
\* metadata, are the pair that passed the most recent connection test.
C30_SavedPairWasTested ==
    [][ /\ user_settings' # user_settings
            => LET row == user_settings'[Len(user_settings')]
               IN  PassedLastTest(row.canvas_url, row.canvas_token)
        /\ user_metadata' # user_metadata
            => PassedLastTest(user_metadata'.canvas_url, user_metadata'.canvas_token)
      ]_vars

====
